---------------------------- MODULE Spec2Model ----------------------------
(***************************************************************************)
(* A model of erofs-sys, the read-only EROFS driver: the block map         *)
(* (flatmap / chunk_map / map), the map and buffer iterators, directory    *)
(* lookup (find_nid / lookup) and the xattr engine (get_xattr /            *)
(* list_xattrs over a SkippableContinuousIter).                            *)
(*                                                                         *)
(* Number conventions.  TLC integers are 32 bit, the driver's Off is u64   *)
(* and Blk is u32.  Every address the model uses stays far below 2^31.     *)
(* A value that a release build obtains by wrapping below zero is kept as  *)
(* the negative integer v, standing for 2^64 + v (2^32 + v for a u32): so  *)
(* u64::MAX and u32::MAX are both written -1, and a negative length is     *)
(* "larger than any address".  A debug build (overflow checks on) panics   *)
(* where a release build wraps; `build` chooses between the two.           *)
(***************************************************************************)
EXTENDS Integers, Sequences, FiniteSets, TLC

VARIABLES
    build,   \* "debug" (overflow checks panic) or "release" (wrapping)
    sb,      \* the SuperBlock fields the driver reads
    devinfo, \* DeviceInfo: mask
    inode,   \* the inode the block-map operations work on
    slots,   \* the inode's on-disk chunk table (chunk layout)
    disk,    \* the image's bytes, as extents [at, bytes]; every other byte is 0
    itab,    \* the inodes of the image by nid, as read_inode_info decodes them
    tree,    \* what the image was built from: each directory's entries by block
    xattrs,  \* what the image was built from: the inode's xattr entries
    mres,    \* the last map(inode, offset) call: its offset and result
    iter,    \* the mapped_iter in progress: MapIter.offset, exhausted or not
    bufs,    \* the buffers the mapped_iter has yielded so far
    fres,    \* the last find_nid call: its arguments and result
    lres,    \* the last lookup call: its arguments and result
    gres,    \* the last get_xattr call: its arguments and result
    xlres,   \* the last list_xattrs call: its buffer length and result
    ores,    \* the last try_new call: its result
    sres,    \* the last xattr_size call: its result
    cres,    \* the buffer iterator under observation and the last call on it
    dres     \* the last fill_dentries call: its arguments, emits and result

image == <<build, sb, devinfo, inode, slots, disk, itab, tree, xattrs>>
mapvars == <<mres, iter, bufs>>
dirvars == <<fres, lres>>
xvars == <<gres, xlres>>
obsvars == <<ores, sres, cres, dres>>
vars == <<image, mapvars, dirvars, xvars, obsvars>>

(***************************************************************************)
(* Bounds of the model.                                                    *)
(***************************************************************************)
MaxIcount == 2       \* i_xattr_icount ranges over 0..MaxIcount
MaxChunkBits == 1    \* ChunkFormat.chunkbits ranges over 0..MaxChunkBits
MaxExtraBytes == 188 \* file sizes end up to this far into a block

(***************************************************************************)
(* Program constants.                                                      *)
(***************************************************************************)
EROFS_TEMP_BLOCK_BITS == 12
EROFS_TEMP_BLOCK_SZ == 2 ^ EROFS_TEMP_BLOCK_BITS
CHUNK_BLKBITS_MASK == 31
CHUNK_FORMAT_INDEX_BIT == 32
NULL_ADDR == -1      \* u32::MAX, the hole sentinel, in the wrap convention
SUMMARY_SIZE == 12   \* size_of::<XAttrSharedEntrySummary>()
C_INT_SIZE == 4      \* size_of::<c_int>()

Min(a, b) == IF a <= b THEN a ELSE b

\* u64 min where a negative operand stands for a wrapped (huge) value
OffMin(a, b) == IF a < 0 THEN (IF b < 0 THEN Min(a, b) ELSE b)
                ELSE IF b < 0 THEN a ELSE Min(a, b)

RoundUp(x, y) == ((x + y - 1) \div y) * y
RoundDown(x, y) == (x \div y) * y

(***************************************************************************)
(* superblock.rs: Accessor and the SuperBlock address helpers.             *)
(***************************************************************************)
Accessor(address, bits) ==
    [base |-> (address \div (2 ^ bits)) * (2 ^ bits),
     off  |-> address % (2 ^ bits),
     len  |-> (2 ^ bits) - (address % (2 ^ bits)),
     nr   |-> address \div (2 ^ bits)]

blksz(s) == 2 ^ s.blkszbits
blkpos(s, blk) == blk * (2 ^ s.blkszbits)
blknr(s, pos) == pos \div (2 ^ s.blkszbits)
blk_round_up(s, addr) == (addr + blksz(s) - 1) \div (2 ^ s.blkszbits)
blk_access(s, address) == Accessor(address, s.blkszbits)
iloc(s, nid) == blkpos(s, s.meta_blkaddr) + nid * 32

(***************************************************************************)
(* inode.rs: InodeInfo, Format, Spec, ChunkFormat.                         *)
(***************************************************************************)
file_size(i) == i.i_size
inode_size(i) == IF i.version = "Extended" THEN 64 ELSE 32
layout(i) == i.layout

is_chunkindex(format) == (format \div CHUNK_FORMAT_INDEX_BIT) % 2 = 1
chunkbits(format) == format % (CHUNK_BLKBITS_MASK + 1)

\* Spec::from((i_u, layout)) for a regular file, directory or symlink
spec(i) ==
    CASE i.layout \in {"FlatInline", "FlatPlain"} -> [kind |-> "RawBlk", v |-> i.i_u]
      [] i.layout \in {"CompressedFull", "CompressedCompact"} ->
                                          [kind |-> "CompressedBlocks", v |-> i.i_u]
      [] i.layout = "Chunk" -> [kind |-> "Chunk", v |-> i.i_u % 65536]
      [] OTHER -> [kind |-> "Unknown", v |-> 0]

\* xattr_size(): the Extended arm computes (i_xattr_icount as Off - 1), which
\* underflows for i_xattr_icount = 0; the Compact arm is the constant 0.
xattr_size_overflows(i) == i.version = "Extended" /\ i.xattr_icount = 0

xattr_size(i) ==
    IF i.version = "Extended"
    THEN SUMMARY_SIZE + C_INT_SIZE * (i.xattr_icount - 1)  \* 8 when wrapped from icount = 0
    ELSE 0

chunk_access(s, format, address) == Accessor(address, chunkbits(format) + s.blkszbits)

(***************************************************************************)
(* Results of map: a Map or an error; "PANIC" stands for the abort of a    *)
(* failed overflow check, unwrap or slice index.                           *)
(***************************************************************************)
NoSeg == [start |-> 0, len |-> 0]

MapOk(ls, ps, len, dev, mt) ==
    [ok |-> TRUE, err |-> "none",
     logical |-> [start |-> ls, len |-> len],
     physical |-> [start |-> ps, len |-> len],
     device_id |-> dev, map_type |-> mt]

MapErr(e) ==
    [ok |-> FALSE, err |-> e, logical |-> NoSeg, physical |-> NoSeg,
     device_id |-> 0, map_type |-> "Normal"]


(***************************************************************************)
(* The image: where the on-disk format places an inode's xattr area and    *)
(* chunk table, and what a read of a chunk slot at a byte position finds.  *)
(***************************************************************************)
image_xattr_size(i) ==
    IF i.xattr_icount = 0 THEN 0 ELSE SUMMARY_SIZE + C_INT_SIZE * (i.xattr_icount - 1)

image_chunk_base(s, i, unit) ==
    RoundUp(iloc(s, i.nid) + inode_size(i) + image_xattr_size(i), unit)

GarbageSlot == [device_id |-> 0, blkaddr |-> 0]

\* backend().fill(&mut buf, 0, pos) followed by ChunkIndex::from / u32::from_le_bytes
read_chunk_slot(s, i, tbl, pos, unit) ==
    LET base == image_chunk_base(s, i, unit)
        k == (pos - base) \div unit
    IN IF pos >= base /\ (pos - base) % unit = 0 /\ k < Len(tbl)
       THEN tbl[k + 1]
       ELSE GarbageSlot

(***************************************************************************)
(* superblock.rs: FileSystem::flatmap, chunk_map, map.                     *)
(***************************************************************************)
flatmap(b, s, i, offset, inline) ==
    LET nblocks == blk_round_up(s, file_size(i))
        sp == spec(i)
    IN IF sp.kind # "RawBlk" THEN MapErr("EUCLEAN")
       ELSE IF inline /\ nblocks = 0 /\ b = "debug" THEN MapErr("PANIC")
       ELSE
         LET blkaddr == sp.v
             lastblk == IF inline THEN nblocks - 1 ELSE nblocks
             lastpos == IF lastblk < 0 THEN -1 ELSE blkpos(s, lastblk)
         IN IF lastpos < 0 \/ offset < lastpos
            THEN MapOk(offset, blkpos(s, blkaddr) + offset,
                       OffMin(file_size(i), lastpos) - offset, 0, "Normal")
            ELSE IF inline
            THEN IF b = "debug" /\ xattr_size_overflows(i) THEN MapErr("PANIC")
                 ELSE MapOk(offset,
                            iloc(s, i.nid) + inode_size(i) + xattr_size(i)
                                + blk_access(s, offset).off,
                            file_size(i) - offset, 0, "Meta")
            ELSE MapErr("EUCLEAN")

\* a chunk_map that takes the offset inside the block, not inside the chunk
chunk_map_blkoff(b, s, d, i, tbl, offset) ==
    LET sp == spec(i)
        accessor == chunk_access(s, sp.v, offset)
        unit == IF is_chunkindex(sp.v) THEN 8 ELSE 4
        pos == RoundUp(iloc(s, i.nid) + inode_size(i) + xattr_size(i)
                           + unit * accessor.nr, unit)
        slot == read_chunk_slot(s, i, tbl, pos, unit)
    IN IF sp.kind # "Chunk" THEN MapErr("EUCLEAN")
       ELSE IF b = "debug" /\ xattr_size_overflows(i) THEN MapErr("PANIC")
       ELSE IF slot.blkaddr = NULL_ADDR THEN MapErr("EUCLEAN")
       ELSE MapOk(offset, blkpos(s, slot.blkaddr) + blk_access(s, offset).off,
                  IF is_chunkindex(sp.v) THEN accessor.len
                  ELSE Min(accessor.len, file_size(i) - offset),
                  IF is_chunkindex(sp.v) THEN slot.device_id % (d.mask + 1) ELSE 0,
                  "Normal")

\* the position chunk_map reads the slot of chunk number nr from
chunk_slot_pos(s, i, unit, nr) ==
    RoundUp(iloc(s, i.nid) + inode_size(i) + xattr_size(i) + unit * nr, unit)

chunk_map(b, s, d, i, tbl, offset) ==
    LET sp == spec(i)
    IN IF sp.kind # "Chunk" THEN MapErr("EUCLEAN")
       ELSE IF b = "debug" /\ xattr_size_overflows(i) THEN MapErr("PANIC")
       ELSE
         LET chunkformat == sp.v
             accessor == chunk_access(s, chunkformat, offset)
         IN IF is_chunkindex(chunkformat)
            THEN LET unit == 8
                     pos == chunk_slot_pos(s, i, unit, accessor.nr)
                     chunk_index == read_chunk_slot(s, i, tbl, pos, unit)
                 IN IF chunk_index.blkaddr = NULL_ADDR THEN MapErr("EUCLEAN")
                    ELSE MapOk(accessor.base + accessor.off,
                               blkpos(s, chunk_index.blkaddr) + accessor.off,
                               accessor.len,
                               chunk_index.device_id % (d.mask + 1),
                               "Normal")
            ELSE LET unit == 4
                     pos == chunk_slot_pos(s, i, unit, accessor.nr)
                     blkaddr == read_chunk_slot(s, i, tbl, pos, unit).blkaddr
                     len == Min(accessor.len, file_size(i) - offset)
                 IN IF blkaddr = NULL_ADDR THEN MapErr("EUCLEAN")
                    ELSE MapOk(accessor.base + accessor.off,
                               blkpos(s, blkaddr) + accessor.off,
                               len, 0, "Normal")

map(b, s, d, i, tbl, offset) ==
    CASE layout(i) = "FlatInline" -> flatmap(b, s, i, offset, TRUE)
      [] layout(i) = "FlatPlain" -> flatmap(b, s, i, offset, FALSE)
      [] layout(i) = "Chunk" -> chunk_map(b, s, d, i, tbl, offset)
      [] OTHER -> MapErr("PANIC")   \* todo!()

(***************************************************************************)
(* map.rs: MapIter::next.  The result is the Map yielded (clamped to the   *)
(* block of its physical start) and the iterator's new offset; none = TRUE *)
(* is Rust's None.                                                         *)
(***************************************************************************)
NoneItem(result, offset) == [none |-> TRUE, m |-> result, offset |-> offset]

\* the Ok arm without the clamp to the block
MapIter_arm_noclamp(s, offset, result) ==
    IF result.ok
    THEN [none |-> FALSE, m |-> result, offset |-> offset + result.physical.len]
    ELSE IF result.err = "PANIC"
    THEN [none |-> FALSE, m |-> result, offset |-> offset]
    ELSE NoneItem(result, offset)

MapIter_next_noclamp(b, s, d, i, tbl, offset) ==
    IF offset >= file_size(i) THEN NoneItem(MapErr("none"), offset)
    ELSE MapIter_arm_noclamp(s, offset, map(b, s, d, i, tbl, offset))

\* the Ok arm with the Map clamped but the offset advanced by the length
\* that map returned
MapIter_arm_unclamped_advance(s, offset, result) ==
    IF result.ok
    THEN LET len == OffMin(result.physical.len, blk_access(s, result.physical.start).len)
         IN [none |-> FALSE,
             m |-> [result EXCEPT !.physical.len = len, !.logical.len = len],
             offset |-> offset + result.physical.len]
    ELSE IF result.err = "PANIC"
    THEN [none |-> FALSE, m |-> result, offset |-> offset]
    ELSE NoneItem(result, offset)

\* match result { Ok(mut m) => ..., Err(_) => None }; a panic of map unwinds
\* through next
MapIter_arm(s, offset, result) ==
    IF result.ok
    THEN LET len == OffMin(result.physical.len, blk_access(s, result.physical.start).len)
         IN [none |-> FALSE,
             m |-> [result EXCEPT !.physical.len = len, !.logical.len = len],
             offset |-> offset + len]
    ELSE IF result.err = "PANIC"
    THEN [none |-> FALSE, m |-> result, offset |-> offset]
    ELSE NoneItem(result, offset)

MapIter_next(b, s, d, i, tbl, offset) ==
    IF offset >= file_size(i) THEN NoneItem(MapErr("none"), offset)
    ELSE MapIter_arm(s, offset, map(b, s, d, i, tbl, offset))

(***************************************************************************)
(* lib.rs / data.rs: TempBlockAccessor and Source::get_temp_buffer; the    *)
(* backend holds every address the model reads, so fill returns the length *)
(* asked for.  A buffer is kept as the device range its content came from. *)
(***************************************************************************)
TempBlockAccessor(address) ==
    [base |-> RoundDown(address, EROFS_TEMP_BLOCK_SZ),
     off  |-> address % EROFS_TEMP_BLOCK_SZ,
     len  |-> EROFS_TEMP_BLOCK_SZ - (address % EROFS_TEMP_BLOCK_SZ)]

get_temp_buffer(offset, maxsize) ==
    LET accessor == TempBlockAccessor(offset)
        sz == EROFS_TEMP_BLOCK_SZ
    IN [start |-> accessor.base + accessor.off,
        len |-> OffMin(OffMin(accessor.len, sz), maxsize)]

(***************************************************************************)
(* temp_iter.rs: TempBufferMapIter::next.                                  *)
(***************************************************************************)
NoBuf == [start |-> 0, len |-> 0]

\* match self.map_iter.next() { Some(m) => ..., None => None }
TempBuffer_arm(r) ==
    IF r.none
    THEN [status |-> "done", swallowed |-> r.m.err, offset |-> r.offset,
          buf |-> NoBuf, m |-> r.m]
    ELSE IF ~r.m.ok
    THEN [status |-> "panic", swallowed |-> "none", offset |-> r.offset,
          buf |-> NoBuf, m |-> r.m]
    ELSE [status |-> "running", swallowed |-> "none", offset |-> r.offset,
          buf |-> IF r.m.logical.len < EROFS_TEMP_BLOCK_SZ
                  THEN [start |-> r.m.physical.start, len |-> r.m.physical.len]
                  ELSE get_temp_buffer(r.m.physical.start, r.m.logical.len),
          m |-> r.m]

TempBufferMapIter_next(b, s, d, i, tbl, offset) ==
    TempBuffer_arm(MapIter_next(b, s, d, i, tbl, offset))

(***************************************************************************)
(* The block-map specification: one inode on one image, probed by map      *)
(* calls and read through a mapped_iter.                                   *)
(***************************************************************************)
BlkSzBits == {9, 12}
Builds == {"debug", "release"}

FileSizes(bits) ==
    LET B == 2 ^ bits
    IN {1, B - 1, B, B + MaxExtraBytes, 2 * B, 2 * B + 1, 3 * B}

\* i_u: a raw block address for the flat layouts, a chunk format otherwise
RawUnions(l) ==
    IF l = "Chunk"
    THEN {cb + ix : cb \in 0..MaxChunkBits, ix \in {0, CHUNK_FORMAT_INDEX_BIT}}
    ELSE {3, 10}

ChunkTables ==
    { <<[device_id |-> 0, blkaddr |-> 8], [device_id |-> 1, blkaddr |-> 13],
        [device_id |-> 0, blkaddr |-> 5]>>,
      <<[device_id |-> 1, blkaddr |-> 6], [device_id |-> 0, blkaddr |-> NULL_ADDR],
        [device_id |-> 0, blkaddr |-> 4]>> }

\* the format keeps an inline tail in the block of its inode
inline_fits(s, i) ==
    LET tail == i.i_size - blkpos(s, blk_round_up(s, i.i_size) - 1)
        start == iloc(s, i.nid) + inode_size(i) + image_xattr_size(i)
    IN blknr(s, start) = blknr(s, start + tail - 1)

NoCall == [called |-> FALSE]
NoMap == [off |-> -1, r |-> MapErr("none")]
IdleIter == [status |-> "idle", offset |-> 0, swallowed |-> "none"]

InitMap ==
    /\ build \in Builds
    /\ sb \in [blkszbits : BlkSzBits, meta_blkaddr : {1}]
    /\ devinfo \in [mask : {0, 1}]
    /\ \E l \in {"FlatPlain", "FlatInline", "Chunk"} :
         inode \in [nid : {2}, version : {"Compact", "Extended"}, layout : {l},
                    i_size : FileSizes(sb.blkszbits), xattr_icount : 0..MaxIcount,
                    i_u : RawUnions(l)]
    /\ inode.layout = "FlatInline" => inline_fits(sb, inode)
    /\ slots \in (IF inode.layout = "Chunk" THEN ChunkTables ELSE {<<>>})
    /\ disk = <<>> /\ itab = <<>> /\ tree = <<>> /\ xattrs = <<>>
    /\ mres = NoMap
    /\ iter = IdleIter
    /\ bufs = <<>>
    /\ fres = NoCall /\ lres = NoCall
    /\ gres = NoCall /\ xlres = NoCall
    /\ ores = NoCall /\ sres = NoCall /\ cres = NoCall /\ dres = NoCall

ProbeOffsets ==
    LET B == blksz(sb)
    IN {o \in {0, 1, B - 1, B, B + 1, 2 * B - 1, 2 * B, file_size(inode) - 1} :
            0 <= o /\ o < file_size(inode)}

\* FileSystem::map(inode, o)
Map(o) ==
    /\ mres' = [off |-> o, r |-> map(build, sb, devinfo, inode, slots, o)]
    /\ UNCHANGED <<image, iter, bufs, dirvars, xvars, obsvars>>

\* FileSystem::mapped_iter(inode, 0)
MappedIter ==
    /\ iter.status = "idle"
    /\ iter' = [status |-> "running", offset |-> 0, swallowed |-> "none"]
    /\ bufs' = <<>>
    /\ UNCHANGED <<image, mres, dirvars, xvars, obsvars>>

\* one call of next() on the mapped_iter
IterYield(r) ==
    /\ iter' = [status |-> r.status, offset |-> r.offset, swallowed |-> r.swallowed]
    /\ bufs' = IF r.status = "running"
               THEN Append(bufs, [start |-> r.buf.start, len |-> r.buf.len, m |-> r.m])
               ELSE bufs

IterNext ==
    /\ iter.status = "running"
    /\ IterYield(TempBufferMapIter_next(build, sb, devinfo, inode, slots, iter.offset))
    /\ UNCHANGED <<image, mres, dirvars, xvars, obsvars>>

NextMap ==
    \/ \E o \in ProbeOffsets : Map(o)
    \/ MappedIter
    \/ IterNext

SpecMap == InitMap /\ [][NextMap]_vars


(***************************************************************************)
(* Where the image keeps logical byte k of the inode's data.               *)
(***************************************************************************)
chunksz(s, i) == 2 ^ (chunkbits(spec(i).v) + s.blkszbits)

image_byte_addr(s, i, tbl, k) ==
    CASE i.layout = "FlatPlain" -> blkpos(s, i.i_u) + k
      [] i.layout = "FlatInline" ->
            LET tail == blkpos(s, blk_round_up(s, i.i_size) - 1)
            IN IF k < tail THEN blkpos(s, i.i_u) + k
               ELSE iloc(s, i.nid) + inode_size(i) + image_xattr_size(i) + (k - tail)
      [] i.layout = "Chunk" ->
            blkpos(s, tbl[(k \div chunksz(s, i)) + 1].blkaddr) + (k % chunksz(s, i))

image_is_hole(s, i, tbl, k) ==
    /\ i.layout = "Chunk"
    /\ tbl[(k \div chunksz(s, i)) + 1].blkaddr = NULL_ADDR

image_has_hole(s, i, tbl) ==
    \E k \in 0..(i.i_size - 1) : k % blksz(s) = 0 /\ image_is_hole(s, i, tbl, k)

RECURSIVE SumLen(_, _)
SumLen(seq, n) == IF n = 0 THEN 0 ELSE SumLen(seq, n - 1) + seq[n].len

Mapped == mres.off >= 0
BlockRemainder(addr) == blksz(sb) - (addr % blksz(sb))

C2_MappedIterExact ==
    (iter.status = "done" /\ ~image_has_hole(sb, inode, slots)) =>
        /\ SumLen(bufs, Len(bufs)) = file_size(inode)
        /\ \A k \in DOMAIN bufs :
              LET p == SumLen(bufs, k - 1)
              IN /\ p + bufs[k].len <= file_size(inode)
                 /\ bufs[k].start = image_byte_addr(sb, inode, slots, p)
                 /\ bufs[k].start + bufs[k].len - 1
                        = image_byte_addr(sb, inode, slots, p + bufs[k].len - 1)

(***************************************************************************)
(* C3: for a flat-inline inode the offsets of [0, file_size) that map with *)
(* kind Meta are exactly [blkpos(nblocks-1), file_size), every other one   *)
(* maps with kind Normal, and a Meta map starts at                         *)
(* iloc(nid) + inode_size + xattr_size + (o mod blksz).                    *)
(***************************************************************************)
C3_InlineTail ==
    (Mapped /\ inode.layout = "FlatInline") =>
        LET tail == blkpos(sb, blk_round_up(sb, file_size(inode)) - 1)
        IN /\ mres.r.ok
           /\ (mres.r.map_type = "Meta") <=> (mres.off >= tail)
           /\ mres.r.map_type = "Meta" =>
                 mres.r.physical.start =
                     iloc(sb, inode.nid) + inode_size(inode) + image_xattr_size(inode)
                         + (mres.off % blksz(sb))

(***************************************************************************)
(* C4 (as stated): for a chunked inode and an offset o whose slot is not a *)
(* hole, the Map of chunk_map has physical.start mod chunksz = o mod       *)
(* chunksz, whatever block address the slot stores.                        *)
(***************************************************************************)
C4_ChunkAligned ==
    (Mapped /\ inode.layout = "Chunk" /\ mres.r.ok) =>
        mres.r.physical.start % chunksz(sb, inode) = mres.off % chunksz(sb, inode)

(***************************************************************************)
(* C4 (amended): the Map of chunk_map starts at blkpos(b) + (o mod         *)
(* chunksz), b being the block address chunk_map read for o's chunk; so    *)
(* physical.start mod blksz = o mod blksz, and the equality modulo chunksz *)
(* holds exactly when b is a multiple of 2^chunkbits.                      *)
(***************************************************************************)
C4_ChunkAlignedAmended ==
    (Mapped /\ inode.layout = "Chunk" /\ mres.r.ok) =>
        LET csz == chunksz(sb, inode)
            unit == IF is_chunkindex(spec(inode).v) THEN 8 ELSE 4
            b == read_chunk_slot(sb, inode, slots,
                     chunk_slot_pos(sb, inode, unit, mres.off \div csz), unit).blkaddr
        IN /\ mres.r.physical.start = blkpos(sb, b) + (mres.off % csz)
           /\ mres.r.physical.start % blksz(sb) = mres.off % blksz(sb)
           /\ (mres.r.physical.start % csz = mres.off % csz)
                 <=> (b % (2 ^ chunkbits(spec(inode).v)) = 0)

\* a chunk slot with a block address that is no multiple of the chunk size,
\* mapped at an offset in the second block of the chunk
C4_Witness ==
    /\ Mapped /\ inode.layout = "Chunk" /\ mres.r.ok
    /\ mres.off % chunksz(sb, inode) >= blksz(sb)
    /\ mres.r.physical.start % chunksz(sb, inode) # mres.off % chunksz(sb, inode)


(***************************************************************************)
(* Bytes.  u16::from_le_bytes / u64::from_le_bytes and their inverse; the  *)
(* backend's fill over the image.                                          *)
(***************************************************************************)
RECURSIVE le_value(_)
le_value(bytes) ==
    IF bytes = <<>> THEN 0 ELSE Head(bytes) + 256 * le_value(Tail(bytes))

\* a value of 2^24 or more lies beyond every address and nid of the image;
\* all such values are kept as BEYOND
BEYOND == -2

from_le_bytes(bytes) ==
    IF \A j \in 4..Len(bytes) : bytes[j] = 0
    THEN le_value(SubSeq(bytes, 1, Min(3, Len(bytes))))
    ELSE BEYOND

RECURSIVE to_le_bytes(_, _)
to_le_bytes(n, width) ==
    IF width = 0 THEN <<>> ELSE <<n % 256>> \o to_le_bytes(n \div 256, width - 1)

Zeros(n) == [j \in 1..n |-> 0]

InExtent(e, a) == e.at <= a /\ a < e.at + Len(e.bytes)

byte_at(dsk, a) ==
    IF \E k \in DOMAIN dsk : InExtent(dsk[k], a)
    THEN LET k == CHOOSE k \in DOMAIN dsk : InExtent(dsk[k], a)
         IN dsk[k].bytes[a - dsk[k].at + 1]
    ELSE 0

\* Source::fill(&mut data[0..len], offset)
fill(dsk, offset, len) == [j \in 1..len |-> byte_at(dsk, offset + j - 1)]

(***************************************************************************)
(* dir.rs: DirentDesc, DirCollection.  A dirent is "some" with its nid and *)
(* name, "none", or "panic" where the slice arithmetic of dirent aborts.   *)
(***************************************************************************)
DIRENT_DESC_SIZE == 12

\* a read of the TempBuffer's block past its content finds the zeros the
\* block was created with
buf_byte(data, j) == IF j <= Len(data) THEN data[j] ELSE 0

desc_bytes(data, index) ==
    [j \in 1..DIRENT_DESC_SIZE |-> buf_byte(data, index * DIRENT_DESC_SIZE + j)]

DirentDesc_from(bytes) ==
    [nid |-> from_le_bytes(SubSeq(bytes, 1, 8)),
     nameoff |-> from_le_bytes(SubSeq(bytes, 9, 10)),
     file_type |-> bytes[11],
     reserved |-> bytes[12]]

DirCollection_new(buffer) ==
    [data |-> buffer, offset |-> 0,
     total |-> DirentDesc_from(desc_bytes(buffer, 0)).nameoff \div DIRENT_DESC_SIZE]

NoDirent == [kind |-> "none", nid |-> 0, name |-> <<>>]
PanicDirent == [kind |-> "panic", nid |-> 0, name |-> <<>>]

dirent_slice(data, desc, endoff) ==
    IF desc.nameoff > endoff \/ endoff > Len(data) THEN PanicDirent
    ELSE [kind |-> "some", nid |-> desc.nid,
          name |-> SubSeq(data, desc.nameoff + 1, endoff)]

\* a dirent that ends the collection one record early
dirent_short(c, index) ==
    IF index >= c.total - 1 THEN NoDirent
    ELSE dirent_slice(c.data, DirentDesc_from(desc_bytes(c.data, index)),
                      DirentDesc_from(desc_bytes(c.data, index + 1)).nameoff)

dirent(c, index) ==
    IF index >= c.total THEN NoDirent
    ELSE IF index = c.total - 1
    THEN dirent_slice(c.data, DirentDesc_from(desc_bytes(c.data, index)), Len(c.data))
    ELSE dirent_slice(c.data, DirentDesc_from(desc_bytes(c.data, index)),
                      DirentDesc_from(desc_bytes(c.data, index + 1)).nameoff)

(***************************************************************************)
(* superblock.rs: FileSystem::find_nid.  The outer loop runs over the      *)
(* buffers of mapped_iter(inode, 0), the inner one over the dirents of     *)
(* each buffer.                                                            *)
(***************************************************************************)
FoundNid(n) == [kind |-> "Some", nid |-> n]
NoNid == [kind |-> "None", nid |-> 0]
PanicNid == [kind |-> "PANIC", nid |-> 0]

RECURSIVE scan_dirents(_, _, _)
scan_dirent(d, c, index, name) ==
    CASE d.kind = "none" -> NoNid
      [] d.kind = "panic" -> PanicNid
      [] d.name = name -> FoundNid(d.nid)
      [] OTHER -> scan_dirents(c, index + 1, name)

scan_dirents(c, index, name) == scan_dirent(dirent(c, index), c, index, name)

\* fs is the FileSystem: its build, superblock, device info, backend bytes
\* and (for a chunked inode) the chunk table the backend holds
RECURSIVE find_nid_from(_, _, _, _)
find_nid_in(found, fs, i, offset, name) ==
    IF found.kind = "None" THEN find_nid_from(fs, i, offset, name)
    ELSE found

find_nid_buf(r, fs, i, name) ==
    CASE r.status = "done" -> NoNid
      [] r.status = "panic" -> PanicNid
      [] OTHER ->
          find_nid_in(scan_dirents(DirCollection_new(fill(fs.disk, r.buf.start, r.buf.len)),
                                   0, name),
                      fs, i, r.offset, name)

find_nid_from(fs, i, offset, name) ==
    find_nid_buf(TempBufferMapIter_next(fs.build, fs.sb, fs.devinfo, i, fs.slots, offset),
                 fs, i, name)

find_nid(fs, i, name) == find_nid_from(fs, i, 0, name)

(***************************************************************************)
(* operations.rs: read_inode and lookup.  The collection's iget decodes    *)
(* the inode at iloc(nid); where the image holds no inode it finds zeros,  *)
(* a compact flat-plain inode of size 0.                                   *)
(***************************************************************************)
SLASH == 47

ZeroInode(nid) ==
    [nid |-> nid, version |-> "Compact", layout |-> "FlatPlain", i_size |-> 0,
     xattr_icount |-> 0, i_u |-> 0]

iget(tab, nid) == IF nid \in DOMAIN tab THEN tab[nid] ELSE ZeroInode(nid)

read_inode(tab, nid) == iget(tab, nid)

\* str::split('/')
RECURSIVE split_from(_, _, _)
split_from(name, k, part) ==
    IF k > Len(name) THEN <<part>>
    ELSE IF name[k] = SLASH THEN <<part>> \o split_from(name, k + 1, <<>>)
    ELSE split_from(name, k + 1, Append(part, name[k]))

split(name) == split_from(name, 1, <<>>)

LookupOk(nid, calls) == [kind |-> "Ok", err |-> "none", nid |-> nid, calls |-> calls]
LookupErr(e, calls) == [kind |-> "Err", err |-> e, nid |-> 0, calls |-> calls]
LookupPanic(calls) == [kind |-> "PANIC", err |-> "none", nid |-> 0, calls |-> calls]

\* calls counts the find_nid calls made so far
RECURSIVE lookup_parts(_, _, _, _, _)
lookup_match(found, fs, tab, parts, calls) ==
    CASE found.kind = "Some" -> lookup_parts(fs, tab, found.nid, parts, calls)
      [] found.kind = "None" -> LookupErr("ENOENT", calls)
      [] OTHER -> LookupPanic(calls)

lookup_parts(fs, tab, nid, parts, calls) ==
    IF parts = <<>> THEN LookupOk(read_inode(tab, nid).nid, calls)
    ELSE IF Head(parts) = <<>> THEN lookup_parts(fs, tab, nid, Tail(parts), calls)
    ELSE lookup_match(find_nid(fs, read_inode(tab, nid), Head(parts)),
                      fs, tab, Tail(parts), calls + 1)

lookup(fs, tab, nid, name) == lookup_parts(fs, tab, nid, split(name), 0)


(***************************************************************************)
(* Directory images.  A directory is given by its inode fields and its     *)
(* entries by block; the image keeps each block as the descriptor array    *)
(* followed by the names, every block but the last padded with zeros to    *)
(* the block size.  The blocks lie at blkpos(raw); the last block of a     *)
(* flat-inline directory lies behind the inode and its xattr area.         *)
(***************************************************************************)
RECURSIVE names_len(_, _)
names_len(es, k) == IF k = 0 THEN 0 ELSE names_len(es, k - 1) + Len(es[k].name)

RECURSIVE descs_bytes(_, _)
descs_bytes(es, k) ==
    IF k = 0 THEN <<>>
    ELSE descs_bytes(es, k - 1)
            \o to_le_bytes(es[k].nid, 8)
            \o to_le_bytes(DIRENT_DESC_SIZE * Len(es) + names_len(es, k - 1), 2)
            \o <<es[k].file_type, 0>>

RECURSIVE names_bytes(_, _)
names_bytes(es, k) == IF k = 0 THEN <<>> ELSE names_bytes(es, k - 1) \o es[k].name

block_len(es) == DIRENT_DESC_SIZE * Len(es) + names_len(es, Len(es))

block_bytes(es, pad) == descs_bytes(es, Len(es)) \o names_bytes(es, Len(es)) \o Zeros(pad)

\* the padding behind block k of directory d
block_pad(s, d, k) == IF k < Len(d.blocks) THEN blksz(s) - block_len(d.blocks[k]) ELSE 0

RECURSIVE dir_bytes(_, _, _)
dir_bytes(s, d, k) ==
    IF k = 0 THEN <<>>
    ELSE dir_bytes(s, d, k - 1) \o block_bytes(d.blocks[k], block_pad(s, d, k))

dir_size(s, d) ==
    IF d.blocks = <<>> THEN 0
    ELSE blksz(s) * (Len(d.blocks) - 1) + block_len(d.blocks[Len(d.blocks)])

dir_inode(s, d) ==
    [nid |-> d.nid, version |-> d.version, layout |-> d.layout, i_size |-> dir_size(s, d),
     xattr_icount |-> d.xattr_icount, i_u |-> d.raw]

dir_extents(s, d) ==
    IF d.blocks = <<>> THEN <<>>
    ELSE IF d.layout = "FlatInline"
    THEN << [at |-> blkpos(s, d.raw), bytes |-> dir_bytes(s, d, Len(d.blocks) - 1)],
            [at |-> iloc(s, d.nid) + inode_size(dir_inode(s, d))
                        + image_xattr_size(dir_inode(s, d)),
             bytes |-> block_bytes(d.blocks[Len(d.blocks)], 0)] >>
    ELSE << [at |-> blkpos(s, d.raw), bytes |-> dir_bytes(s, d, Len(d.blocks))] >>

RECURSIVE tree_extents(_, _, _)
tree_extents(s, t, k) ==
    IF k = 0 THEN <<>> ELSE tree_extents(s, t, k - 1) \o dir_extents(s, t[k])

tree_itab(s, t) ==
    [n \in {t[k].nid : k \in DOMAIN t} |->
        dir_inode(s, t[CHOOSE k \in DOMAIN t : t[k].nid = n])]

(***************************************************************************)
(* The directory specification: one image holding a small tree, searched   *)
(* by find_nid and walked by lookup.                                       *)
(***************************************************************************)
Str_dot == <<46>>
Str_dotdot == <<46, 46>>
Str_a == <<97>>
Str_b == <<98>>
Str_ab == <<97, 98>>
Str_f == <<102>>
Str_x == <<120>>

Ent(nid, name, ft) == [nid |-> nid, name |-> name, file_type |-> ft]

ROOT_NID == 2
DIR_A == 7
DIR_B == 10
FILE_F == 12
FILE_G == 13

\* the root directory has two blocks and is the inode that varies; "b" is
\* entered twice, in two blocks, and "ab" twice in one block
TreeOf(v, ic, l) ==
    << [nid |-> ROOT_NID, version |-> v, xattr_icount |-> ic, layout |-> l, raw |-> 4,
        blocks |-> << << Ent(ROOT_NID, Str_dot, 2), Ent(ROOT_NID, Str_dotdot, 2),
                         Ent(DIR_B, Str_b, 2), Ent(FILE_G, Str_x, 1) >>,
                      << Ent(DIR_A, Str_a, 2), Ent(FILE_F, Str_ab, 1),
                         Ent(FILE_G, Str_ab, 1), Ent(FILE_F, Str_b, 1),
                         Ent(FILE_F, Str_f, 1) >> >>],
       [nid |-> DIR_A, version |-> "Compact", xattr_icount |-> 0, layout |-> "FlatInline",
        raw |-> 0,
        blocks |-> << << Ent(DIR_A, Str_dot, 2), Ent(ROOT_NID, Str_dotdot, 2),
                         Ent(DIR_B, Str_b, 2) >> >>],
       [nid |-> DIR_B, version |-> "Compact", xattr_icount |-> 0, layout |-> "FlatPlain",
        raw |-> 6,
        blocks |-> << << Ent(DIR_B, Str_dot, 2), Ent(DIR_A, Str_dotdot, 2),
                         Ent(FILE_G, Str_f, 1) >> >>],
       [nid |-> FILE_F, version |-> "Compact", xattr_icount |-> 0, layout |-> "FlatPlain",
        raw |-> 0, blocks |-> <<>>],
       [nid |-> FILE_G, version |-> "Extended", xattr_icount |-> 0, layout |-> "FlatPlain",
        raw |-> 0, blocks |-> <<>>] >>

NoInode == ZeroInode(0)

InitDir ==
    /\ build \in Builds
    /\ sb = [blkszbits |-> 9, meta_blkaddr |-> 1]
    /\ devinfo = [mask |-> 0]
    /\ inode = NoInode /\ slots = <<>>
    /\ \E v \in {"Compact", "Extended"}, ic \in 0..MaxIcount,
          l \in {"FlatPlain", "FlatInline"} : tree = TreeOf(v, ic, l)
    /\ disk = tree_extents(sb, tree, Len(tree))
    /\ itab = tree_itab(sb, tree)
    /\ xattrs = <<>>
    /\ mres = NoMap /\ iter = IdleIter /\ bufs = <<>>
    /\ fres = NoCall /\ lres = NoCall
    /\ gres = NoCall /\ xlres = NoCall
    /\ ores = NoCall /\ sres = NoCall /\ cres = NoCall /\ dres = NoCall

FS == [build |-> build, sb |-> sb, devinfo |-> devinfo, disk |-> disk, slots |-> slots]

Names == {Str_dot, Str_a, Str_b, Str_ab, Str_f, Str_x}

Paths ==
    { <<>>, <<SLASH>>, Str_a, <<SLASH>> \o Str_a, <<SLASH>> \o Str_b,
      <<SLASH>> \o Str_a \o <<SLASH>> \o Str_b,
      Str_a \o <<SLASH, SLASH>> \o Str_b \o <<SLASH>>,
      <<SLASH>> \o Str_x, <<SLASH>> \o Str_x \o <<SLASH>> \o Str_b,
      <<SLASH>> \o Str_a \o <<SLASH>> \o Str_x \o <<SLASH>> \o Str_b,
      <<SLASH>> \o Str_a \o <<SLASH>> \o Str_b \o <<SLASH>> \o Str_f,
      <<SLASH>> \o Str_ab \o <<SLASH>> \o Str_a,
      <<SLASH>> \o Str_a \o <<SLASH>> \o Str_dotdot \o <<SLASH>> \o Str_f }

\* find_nid and lookup read the image and change nothing of it: a behaviour
\* observes one call of each.
\* FileSystem::find_nid(inode, name) on the inode of nid
FindNid(nid, name) ==
    /\ ~fres.called
    /\ fres' = [called |-> TRUE, nid |-> nid, name |-> name,
                r |-> find_nid(FS, read_inode(itab, nid), name)]
    /\ UNCHANGED <<image, mapvars, lres, xvars, obsvars>>

\* lookup(filesystem, collection, nid, name)
Lookup(nid, name) ==
    /\ ~lres.called
    /\ lres' = [called |-> TRUE, nid |-> nid, name |-> name,
                r |-> lookup(FS, itab, nid, name)]
    /\ UNCHANGED <<image, mapvars, fres, xvars, obsvars>>

NextDir ==
    \/ \E nid \in DOMAIN itab, name \in Names : FindNid(nid, name)
    \/ \E nid \in {ROOT_NID, DIR_A}, name \in Paths : Lookup(nid, name)

SpecDir == InitDir /\ [][NextDir]_vars


(***************************************************************************)
(* What the image holds: the entries of a directory in block-then-record   *)
(* order.  The name of a block's last record runs to the end of the block, *)
(* so it carries the block's padding.                                      *)
(***************************************************************************)
tree_dir(t, nid) == t[CHOOSE k \in DOMAIN t : t[k].nid = nid]

entry_name(s, d, k, j) ==
    IF j = Len(d.blocks[k]) THEN d.blocks[k][j].name \o Zeros(block_pad(s, d, k))
    ELSE d.blocks[k][j].name

entry_matches(s, d, name) ==
    {m \in (DOMAIN d.blocks) \X (1..5) :
        m[2] <= Len(d.blocks[m[1]]) /\ entry_name(s, d, m[1], m[2]) = name}

Before(m, n) == m[1] < n[1] \/ (m[1] = n[1] /\ m[2] <= n[2])

first_match(M) == CHOOSE m \in M : \A n \in M : Before(m, n)

entry_find(s, t, nid, name) ==
    LET d == tree_dir(t, nid)
        M == entry_matches(s, d, name)
    IN IF M = {} THEN NoNid
       ELSE FoundNid(d.blocks[first_match(M)[1]][first_match(M)[2]].nid)

\* the non-empty '/'-separated segments of a path
RECURSIVE segments_from(_, _, _)
segments_from(path, k, seg) ==
    IF k > Len(path) THEN (IF seg = <<>> THEN <<>> ELSE <<seg>>)
    ELSE IF path[k] # SLASH THEN segments_from(path, k + 1, Append(seg, path[k]))
    ELSE IF seg = <<>> THEN segments_from(path, k + 1, <<>>)
    ELSE <<seg>> \o segments_from(path, k + 1, <<>>)

segments(path) == segments_from(path, 1, <<>>)

RECURSIVE entry_walk(_, _, _, _, _)
entry_walk(s, t, nid, segs, k) ==
    IF segs = <<>> THEN LookupOk(nid, k)
    ELSE IF entry_find(s, t, nid, Head(segs)).kind = "None" THEN LookupErr("ENOENT", k + 1)
    ELSE entry_walk(s, t, entry_find(s, t, nid, Head(segs)).nid, Tail(segs), k + 1)

(***************************************************************************)
(* C5: find_nid(parent, name) returns Ok(Some(n)) exactly when some entry  *)
(* in some block of parent has the name, n being the nid of the first such *)
(* entry in block-then-record order; otherwise it returns Ok(None).        *)
(***************************************************************************)
C5_FindNidFirstMatch ==
    fres.called => fres.r = entry_find(sb, tree, fres.nid, fres.name)

(***************************************************************************)
(* C6: lookup resolves the non-empty segments of the path left to right by *)
(* find_nid and returns the inode of the final nid; empty segments are     *)
(* ignored; a segment without a matching entry ends the walk with ENOENT   *)
(* and no later segment is resolved.                                       *)
(***************************************************************************)
C6_LookupWalk ==
    lres.called => lres.r = entry_walk(sb, tree, lres.nid, segments(lres.name), 0)

(***************************************************************************)
(* The file backend under the xattr engine.  fs carries the build, the     *)
(* superblock, the image bytes, the length of the image file and the       *)
(* filesystem's infix table.  File::read_at stops at the end of the file,  *)
(* so a fill of a whole TempBlock can come back short.                     *)
(***************************************************************************)
file_fill(fs, base) ==
    IF base < 0 \/ base >= fs.size THEN 0 ELSE Min(EROFS_TEMP_BLOCK_SZ, fs.size - base)

\* a get_temp_buffer that does not stop at the end of the TempBlock
get_temp_buffer_across(fs, offset, maxsize) ==
    [at |-> offset,
     dlen |-> OffMin(file_fill(fs, TempBlockAccessor(offset).base), maxsize)]

\* Source::get_temp_buffer: the content is block[off .. off + len), kept as
\* the device address of its first byte and its length; bytes of the block
\* that the fill did not reach are the zeros the block was created with
Source_get_temp_buffer(fs, offset, maxsize) ==
    LET accessor == TempBlockAccessor(offset)
    IN [at |-> offset,
        dlen |-> OffMin(OffMin(accessor.len, file_fill(fs, accessor.base)), maxsize)]

content(fs, p, from, n) == [j \in 1..n |-> byte_at(fs.disk, p.at + from + j - 1)]

(***************************************************************************)
(* temp_iter.rs: ContinuousTempBufferIter (offset, len), and raw_iters.rs: *)
(* the SkippableContinuousIter on top of it (data, cur).  Both are kept in *)
(* one record p = [offset, len, at, dlen, cur]; at/dlen are self.data.     *)
(* An operation ends "ok", "err", "panic" (an unwrap of None, an index out *)
(* of range, an overflow check) or "hang" (a loop that cannot make         *)
(* progress).                                                              *)
(***************************************************************************)
ContinuousTempBufferIter_new(offset, len) ==
    [offset |-> offset, len |-> len, at |-> 0, dlen |-> 0, cur |-> 0]

\* Iterator::next: None at len == 0, else the next buffer
ContinuousTempBufferIter_next(fs, p) ==
    IF p.len = 0
    THEN [none |-> TRUE, p |-> p]
    ELSE LET buffer == Source_get_temp_buffer(fs, p.offset, p.len)
         IN [none |-> FALSE,
             p |-> [p EXCEPT !.offset = p.offset + buffer.dlen,
                             !.len = p.len - buffer.dlen,
                             !.at = buffer.at, !.dlen = buffer.dlen]]

\* advance_off: self.offset += offset; self.len -= offset
advance_off_overflows(p, offset) == p.len >= 0 /\ p.len < offset

advance_off(p, offset) ==
    [p EXCEPT !.offset = p.offset + offset, !.len = p.len - offset]

ContinuousTempBufferIter_eof(p) == p.len = 0

\* try_new: Ok(None) at eof, else the first buffer with cur = 0
SkippableContinuousIter_try_new(fs, it) ==
    IF ContinuousTempBufferIter_eof(it)
    THEN [none |-> TRUE, p |-> it]
    ELSE [none |-> FALSE, p |-> [ContinuousTempBufferIter_next(fs, it).p EXCEPT !.cur = 0]]

\* self.data = self.iter.next().unwrap()? with self.cur = 0 set before it
refill(fs, p) ==
    LET nx == ContinuousTempBufferIter_next(fs, [p EXCEPT !.cur = 0])
    IN [st |-> IF nx.none THEN "panic" ELSE "ok", p |-> nx.p]

\* skip(offset)
skip(fs, p, offset) ==
    LET dlen == p.dlen - p.cur
    IN IF offset <= dlen
       THEN [st |-> "ok", p |-> [p EXCEPT !.cur = p.cur + offset]]
       ELSE IF fs.build = "debug" /\ advance_off_overflows(p, dlen)
            THEN [st |-> "panic", p |-> p]
            ELSE refill(fs, advance_off(p, dlen))

eof(p) == p.dlen - p.cur = 0 /\ ContinuousTempBufferIter_eof(p)

\* a read that copies the bytes under the cursor and leaves the cursor alone
read_stale(fs, p, blen) ==
    [st |-> "ok", p |-> p, buf |-> content(fs, p, p.cur, blen)]

\* read(buf): the bytes that land in buf[0 .. blen)
RECURSIVE read_loop(_, _, _, _), read_refilled(_, _, _, _)
\* the body of `while bcur < blen` after self.data has been replaced
read_refilled(fs, r, blen, buf) ==
    IF r.st # "ok"
    THEN [st |-> r.st, p |-> r.p, buf |-> buf]
    ELSE IF r.p.dlen >= blen - Len(buf)
         THEN [st |-> "ok", p |-> [r.p EXCEPT !.cur = blen - Len(buf)],
               buf |-> buf \o content(fs, r.p, 0, blen - Len(buf))]
         ELSE IF r.p.dlen = 0
              THEN [st |-> "hang", p |-> r.p, buf |-> buf]  \* bcur += 0, for ever
              ELSE read_loop(fs, r.p, blen, buf \o content(fs, r.p, 0, r.p.dlen))

read_loop(fs, p, blen, buf) ==
    IF Len(buf) < blen
    THEN read_refilled(fs, refill(fs, p), blen, buf)
    ELSE [st |-> "ok", p |-> p, buf |-> buf]

read(fs, p, blen) ==
    LET dlen == p.dlen - p.cur
    IN IF dlen # 0 /\ dlen >= blen
       THEN [st |-> "ok", p |-> [p EXCEPT !.cur = p.cur + blen],
             buf |-> content(fs, p, p.cur, blen)]
       ELSE read_loop(fs, p, blen, content(fs, p, p.cur, dlen))

\* a compare that moves the two cursors only when the bytes are equal
cmp_with_cursor_kept(fs, p, buf, bcur, len) ==
    LET equal == content(fs, p, p.cur, len) = SubSeq(buf, bcur + 1, bcur + len)
    IN [equal |-> equal,
        p |-> IF equal THEN [p EXCEPT !.cur = p.cur + len] ELSE p,
        bcur |-> bcur + len]

\* cmp_with_cursor_move: compares len bytes and moves both cursors by len
cmp_with_cursor_move(fs, p, buf, bcur, len) ==
    [equal |-> content(fs, p, p.cur, len) = SubSeq(buf, bcur + 1, bcur + len),
     p |-> [p EXCEPT !.cur = p.cur + len],
     bcur |-> bcur + len]

\* try_cmp(buf): Ok(()), NotEqual(n), or the failure of a refill
RECURSIVE try_cmp_loop(_, _, _, _), try_cmp_refilled(_, _, _, _)
try_cmp_compared(fs, c, buf) ==
    IF c.equal
    THEN try_cmp_loop(fs, c.p, buf, c.bcur)
    ELSE [st |-> "noteq", n |-> c.bcur, p |-> c.p]

try_cmp_refilled(fs, r, buf, bcur) ==
    IF r.st # "ok"
    THEN [st |-> r.st, n |-> bcur, p |-> r.p]
    ELSE IF r.p.dlen = 0
         THEN [st |-> "hang", n |-> bcur, p |-> r.p]  \* clen = 0, for ever
         ELSE try_cmp_compared(fs,
                  cmp_with_cursor_move(fs, r.p, buf, bcur, Min(r.p.dlen, Len(buf) - bcur)),
                  buf)

try_cmp_loop(fs, p, buf, bcur) ==
    IF bcur < Len(buf)
    THEN try_cmp_refilled(fs, refill(fs, p), buf, bcur)
    ELSE [st |-> "ok", n |-> bcur, p |-> p]

try_cmp_whole(c) ==
    [st |-> IF c.equal THEN "ok" ELSE "noteq", n |-> c.bcur, p |-> c.p]

try_cmp(fs, p, buf) ==
    LET dlen == p.dlen - p.cur
        blen == Len(buf)
    IN IF dlen # 0 /\ dlen >= blen
       THEN try_cmp_whole(cmp_with_cursor_move(fs, p, buf, 0, blen))
       ELSE IF dlen # 0
            THEN try_cmp_compared(fs, cmp_with_cursor_move(fs, p, buf, 0, Min(dlen, blen)), buf)
            ELSE try_cmp_loop(fs, p, buf, 0)

(***************************************************************************)
(* xattrs.rs: entry headers, name indexes, prefixes and the                *)
(* XAttrEntriesProvider of a SkippableContinuousIter.                      *)
(***************************************************************************)
EROFS_XATTR_LONG_PREFIX == 128
EROFS_XATTR_LONG_MASK == EROFS_XATTR_LONG_PREFIX - 1
XATTR_ENTRY_HEADER_SIZE == 4

Str_user == <<117, 115, 101, 114, 46>>
Str_posix_acl_access ==
    <<115, 121, 115, 116, 101, 109, 46, 112, 111, 115, 105, 120, 95, 97, 99,
      108, 95, 97, 99, 99, 101, 115, 115>>
Str_posix_acl_default ==
    <<115, 121, 115, 116, 101, 109, 46, 112, 111, 115, 105, 120, 95, 97, 99,
      108, 95, 100, 101, 102, 97, 117, 108, 116>>
Str_trusted == <<116, 114, 117, 115, 116, 101, 100, 46>>
Str_security == <<115, 101, 99, 117, 114, 105, 116, 121, 46>>

\* indexed from 0 in the source: EROFS_XATTRS_PREFIXS[k] is prefix(k)
EROFS_XATTRS_PREFIXS ==
    << <<>>, Str_user, Str_posix_acl_access, Str_posix_acl_default,
       Str_trusted, <<>>, Str_security >>

prefix(k) == EROFS_XATTRS_PREFIXS[k + 1]

is_long(name_index) == name_index >= EROFS_XATTR_LONG_PREFIX

\* Into<usize> for XattrNameIndex
name_index_usize(name_index) ==
    IF is_long(name_index) THEN name_index % EROFS_XATTR_LONG_PREFIX ELSE name_index

XAttrEntryHeader_from(value) ==
    [suffix_len |-> value[1], name_index |-> value[2],
     value_len |-> value[3] + 256 * value[4]]

\* ifs.get(if_index) on the infix table, indexed from 0 in the source
infix(ifs, if_index) == ifs[if_index + 1]

get_entry_header_arm(r) ==
    [st |-> r.st, p |-> r.p,
     header |-> IF r.st = "ok" THEN XAttrEntryHeader_from(r.buf)
                ELSE XAttrEntryHeader_from(<<0, 0, 0, 0>>)]

get_entry_header(fs, p) == get_entry_header_arm(read(fs, p, XATTR_ENTRY_HEADER_SIZE))

\* get_xattr_key: the bytes copied before the suffix is read; "panic" where
\* ifs.get(..).unwrap() or EROFS_XATTRS_PREFIXS[..] is out of range
key_head(ifs, header) ==
    IF is_long(header.name_index)
    THEN IF name_index_usize(header.name_index) >= Len(ifs)
         THEN [st |-> "panic", bytes |-> <<>>]
         ELSE IF infix(ifs, name_index_usize(header.name_index)).prefix_index
                     >= Len(EROFS_XATTRS_PREFIXS)
              THEN [st |-> "panic", bytes |-> <<>>]
              ELSE [st |-> "ok",
                    bytes |-> prefix(infix(ifs, name_index_usize(header.name_index)).prefix_index)
                              \o infix(ifs, name_index_usize(header.name_index)).name]
    ELSE IF name_index_usize(header.name_index) >= Len(EROFS_XATTRS_PREFIXS)
         THEN [st |-> "panic", bytes |-> <<>>]
         ELSE [st |-> "ok", bytes |-> prefix(name_index_usize(header.name_index))]

\* after self.read(&mut buffer[cur..cur + suffix_len]): buffer[cur] = 0
get_xattr_key_read(head, r, room) ==
    IF r.st # "ok"
    THEN [st |-> r.st, p |-> r.p, key |-> <<>>]
    ELSE IF Len(head) + Len(r.buf) >= room
         THEN [st |-> "panic", p |-> r.p, key |-> <<>>]
         ELSE [st |-> "ok", p |-> r.p, key |-> head \o r.buf \o <<0>>]

\* room is the length of the slice &mut buffer[offset..] the key is written to
get_xattr_key_head(fs, p, header, room, h) ==
    IF h.st # "ok" \/ Len(h.bytes) > room \/ Len(h.bytes) + header.suffix_len > room
    THEN [st |-> "panic", p |-> p, key |-> <<>>]
    ELSE get_xattr_key_read(h.bytes, read(fs, p, header.suffix_len), room)

get_xattr_key(fs, p, header, room) ==
    get_xattr_key_head(fs, p, header, room, key_head(fs.infixes, header))

\* skip_xattr_value
skip_xattr_value(fs, p, header) ==
    skip(fs, p, RoundUp(header.suffix_len + header.value_len, XATTR_ENTRY_HEADER_SIZE)
                - header.suffix_len)

\* the device address of the next byte of the stream (an observation of the
\* model, for stating where an entry was matched)
position(p) == IF p.cur < p.dlen THEN p.at + p.cur ELSE p.offset

NoValue == [kind |-> "None", n |-> 0, bytes |-> <<>>]
XOk(p, value, at) == [st |-> "ok", e |-> "", p |-> p, value |-> value, at |-> at]
XErr(e, p) == [st |-> "err", e |-> e, p |-> p, value |-> NoValue, at |-> 0]
XAbort(st, p) == [st |-> st, e |-> "", p |-> p, value |-> NoValue, at |-> 0]

\* alloc_helper.rs: vec_with_capacity, as cargo builds it: vec![0; capacity]
vec_with_capacity(capacity) == Zeros(capacity)

\* query_xattr_value: the offset in name where the suffix starts, or -1
\* where the function returns Err(ENODATA) before comparing anything
query_cur(ifs, header, name, index) ==
    IF is_long(header.name_index)
    THEN IF name_index_usize(header.name_index) >= Len(ifs)
         THEN -1
         ELSE LET ifx == infix(ifs, name_index_usize(header.name_index))
                  ilen == Len(ifx.name)
              IN IF ifx.prefix_index >= Len(EROFS_XATTRS_PREFIXS)
                 THEN -1
                 ELSE IF \/ index # ifx.prefix_index
                         \/ Len(name) # ilen + header.suffix_len
                         \/ SubSeq(name, 1, ilen) # ifx.name
                      THEN -1
                      ELSE ilen
    ELSE IF name_index_usize(header.name_index) >= Len(EROFS_XATTRS_PREFIXS)
         THEN -1
         ELSE IF \/ name_index_usize(header.name_index) # index
                 \/ header.suffix_len # Len(name)
              THEN -1
              ELSE 0

\* Ok(()) => the value read into the caller's buffer or into a fresh vector
query_value_read(kind, r, at) ==
    IF r.st # "ok"
    THEN [XAbort(r.st, r.p) EXCEPT !.at = at]
    ELSE XOk(r.p, [kind |-> kind, n |-> Len(r.buf), bytes |-> r.buf], at)

\* query_value with a buffer one byte short accepted
query_value_lax(fs, p, header, buffer, at) ==
    IF buffer.some
    THEN IF buffer.len < header.value_len - 1
         THEN [XErr("ERANGE", p) EXCEPT !.at = at]
         ELSE query_value_read("Buffer", read(fs, p, header.value_len), at)
    ELSE query_value_read("Vec", read(fs, p, Len(vec_with_capacity(header.value_len))), at)

query_value(fs, p, header, buffer, at) ==
    IF buffer.some
    THEN IF buffer.len < header.value_len
         THEN [XErr("ERANGE", p) EXCEPT !.at = at]
         ELSE query_value_read("Buffer", read(fs, p, header.value_len), at)
    ELSE query_value_read("Vec", read(fs, p, Len(vec_with_capacity(header.value_len))), at)

\* NotEqual(nvalue) => self.skip(xattr_size - nvalue)?; Err(ENODATA)
query_skipped(r) ==
    IF r.st # "ok" THEN XAbort(r.st, r.p) ELSE XErr("ENODATA", r.p)

\* match self.try_cmp(&name[cur..])
query_compared(fs, header, buffer, c, at) ==
    CASE c.st = "ok" -> query_value(fs, c.p, header, buffer, at)
      [] c.st = "noteq" ->
            query_skipped(skip(fs, c.p,
                RoundUp(header.suffix_len + header.value_len, XATTR_ENTRY_HEADER_SIZE) - c.n))
      [] OTHER -> XAbort(c.st, c.p)

query_from(fs, p, header, q, cur) ==
    IF cur < 0
    THEN XErr("ENODATA", p)
    ELSE query_compared(fs, header, q.buffer,
                        try_cmp(fs, p, SubSeq(q.name, cur + 1, Len(q.name))),
                        position(p))

query_xattr_value(fs, p, header, q) ==
    query_from(fs, p, header, q, query_cur(fs.infixes, header, q.name, q.index))

(***************************************************************************)
(* superblock.rs: read_inode_xattrs_shared_entries, get_xattr and          *)
(* list_xattrs.  A result is [st, e, value, at]: at is the address of the  *)
(* suffix bytes of the entry whose name compared equal, 0 if none did.     *)
(***************************************************************************)
\* the summary is read at iloc + inode_size whatever i_xattr_icount is;
\* (header.shared_count << 2) is a shift of a u8
read_inode_xattrs_shared_entries(fs, nid, i) ==
    LET offset == iloc(fs.sb, nid) + inode_size(i)
        shared_count == byte_at(fs.disk, offset + 4)
        len == (shared_count * 4) % 256
    IN [j \in 1..(len \div 4) |->
            from_le_bytes(fill(fs.disk, offset + SUMMARY_SIZE + 4 * (j - 1), 4))]

inline_offset(fs, i, shared_count) ==
    iloc(fs.sb, i.nid) + inode_size(i) + SUMMARY_SIZE + 4 * shared_count

\* xattr_size() - 12 - shared_count * 4, wrapped
inline_len(i, shared_count) == xattr_size(i) - SUMMARY_SIZE - shared_count * 4

inline_len_overflows(i, shared_count) ==
    xattr_size_overflows(i) \/ xattr_size(i) < SUMMARY_SIZE + shared_count * 4

shared_provider(fs, entry_index) ==
    SkippableContinuousIter_try_new(fs,
        ContinuousTempBufferIter_new(blkpos(fs.sb, fs.sb.xattr_blkaddr) + entry_index * 4,
                                     NULL_ADDR)).p

XResult(r) == [st |-> r.st, e |-> r.e, value |-> r.value, at |-> r.at]

RECURSIVE get_xattr_shared(_, _, _), get_xattr_inline(_, _, _)
get_xattr_shared_queried(fs, c, k, r) ==
    IF r.st = "err" /\ r.e = "ENODATA" THEN get_xattr_shared(fs, c, k + 1) ELSE XResult(r)

get_xattr_shared_header(fs, c, k, h) ==
    IF h.st # "ok"
    THEN XResult(XAbort(h.st, h.p))
    ELSE get_xattr_shared_queried(fs, c, k, query_xattr_value(fs, h.p, h.header, c.q))

\* for entry_index in shared_indexes.iter() { ... }  Err(ENODATA)
get_xattr_shared(fs, c, k) ==
    IF k > Len(c.shared)
    THEN XResult(XErr("ENODATA", ContinuousTempBufferIter_new(0, 0)))
    ELSE get_xattr_shared_header(fs, c, k,
             get_entry_header(fs, shared_provider(fs, c.shared[k])))

get_xattr_queried(fs, c, r) ==
    IF r.st = "err" /\ r.e = "ENODATA" THEN get_xattr_inline(fs, c, r.p) ELSE XResult(r)

get_xattr_header(fs, c, h) ==
    IF h.st # "ok"
    THEN XResult(XAbort(h.st, h.p))
    ELSE get_xattr_queried(fs, c, query_xattr_value(fs, h.p, h.header, c.q))

\* while !inline_provider.eof() { ... }
get_xattr_inline(fs, c, p) ==
    IF eof(p)
    THEN get_xattr_shared(fs, c, 1)
    ELSE get_xattr_header(fs, c, get_entry_header(fs, p))

get_xattr_provider(fs, c, n) ==
    IF n.none THEN get_xattr_shared(fs, c, 1) ELSE get_xattr_inline(fs, c, n.p)

\* get_xattr(inode, index, name, buffer), q = [index, name, buffer]
get_xattr(fs, i, shared, q) ==
    IF fs.build = "debug" /\ inline_len_overflows(i, Len(shared))
    THEN XResult(XAbort("panic", ContinuousTempBufferIter_new(0, 0)))
    ELSE get_xattr_provider(fs, [shared |-> shared, q |-> q],
             SkippableContinuousIter_try_new(fs,
                 ContinuousTempBufferIter_new(inline_offset(fs, i, Len(shared)),
                                              inline_len(i, Len(shared)))))

\* list_xattrs: out is what has been written to buffer[0 .. offset)
ListResult(st, out) == [st |-> st, n |-> Len(out), out |-> out]

RECURSIVE list_xattrs_shared(_, _, _, _), list_xattrs_inline(_, _, _, _)
list_xattrs_shared_key(fs, c, k, out, kr) ==
    IF kr.st # "ok"
    THEN ListResult(kr.st, out)
    ELSE list_xattrs_shared(fs, c, k + 1, out \o kr.key)

list_xattrs_shared_header(fs, c, k, out, h) ==
    IF h.st # "ok"
    THEN ListResult(h.st, out)
    ELSE list_xattrs_shared_key(fs, c, k, out,
             get_xattr_key(fs, h.p, h.header, c.len - Len(out)))

\* for index in shared_indexes.iter() { ... }  Ok(offset)
list_xattrs_shared(fs, c, k, out) ==
    IF k > Len(c.shared)
    THEN ListResult("ok", out)
    ELSE list_xattrs_shared_header(fs, c, k, out,
             get_entry_header(fs, shared_provider(fs, c.shared[k])))

list_xattrs_skipped(fs, c, out, s) ==
    IF s.st # "ok" THEN ListResult(s.st, out) ELSE list_xattrs_inline(fs, c, s.p, out)

list_xattrs_key(fs, c, out, header, kr) ==
    IF kr.st # "ok"
    THEN ListResult(kr.st, out)
    ELSE list_xattrs_skipped(fs, c, out \o kr.key, skip_xattr_value(fs, kr.p, header))

list_xattrs_header(fs, c, out, h) ==
    IF h.st # "ok"
    THEN ListResult(h.st, out)
    ELSE list_xattrs_key(fs, c, out, h.header,
             get_xattr_key(fs, h.p, h.header, c.len - Len(out)))

\* while !inline_provider.eof() { ... }
list_xattrs_inline(fs, c, p, out) ==
    IF eof(p)
    THEN list_xattrs_shared(fs, c, 1, out)
    ELSE list_xattrs_header(fs, c, out, get_entry_header(fs, p))

list_xattrs_provider(fs, c, n) ==
    IF n.none THEN list_xattrs_shared(fs, c, 1, <<>>) ELSE list_xattrs_inline(fs, c, n.p, <<>>)

\* list_xattrs(inode, buffer), len = buffer.len()
list_xattrs(fs, i, shared, len) ==
    IF fs.build = "debug" /\ inline_len_overflows(i, Len(shared))
    THEN ListResult("panic", <<>>)
    ELSE list_xattrs_provider(fs, [shared |-> shared, len |-> len],
             SkippableContinuousIter_try_new(fs,
                 ContinuousTempBufferIter_new(inline_offset(fs, i, Len(shared)),
                                              inline_len(i, Len(shared)))))

(***************************************************************************)
(* The xattr image: an inode's xattr area is the 12-byte summary, the      *)
(* shared indexes and the inline entries; a shared entry lives in the      *)
(* shared pool at blkpos(xattr_blkaddr) + 4 * index.  An entry is          *)
(* [name_index, suffix, value].                                            *)
(***************************************************************************)
XEntry(name_index, suffix, value) ==
    [name_index |-> name_index, suffix |-> suffix, value |-> value]

entry_bytes(e) ==
    <<Len(e.suffix), e.name_index, Len(e.value) % 256, Len(e.value) \div 256>>
    \o e.suffix \o e.value
    \o Zeros(RoundUp(Len(e.suffix) + Len(e.value), XATTR_ENTRY_HEADER_SIZE)
             - Len(e.suffix) - Len(e.value))

RECURSIVE entries_bytes(_, _)
entries_bytes(es, k) ==
    IF k = 0 THEN <<>> ELSE entries_bytes(es, k - 1) \o entry_bytes(es[k])

RECURSIVE indexes_bytes(_, _)
indexes_bytes(idx, k) ==
    IF k = 0 THEN <<>> ELSE indexes_bytes(idx, k - 1) \o to_le_bytes(idx[k], 4)

xattr_area(x) ==
    Zeros(4) \o <<Len(x.shared)>> \o Zeros(7)
    \o indexes_bytes(x.shared, Len(x.shared))
    \o entries_bytes(x.inline, Len(x.inline))

\* i_xattr_icount as the image builder writes it: 0 without xattrs
image_icount(inline, shared) ==
    IF inline = <<>> /\ shared = <<>>
    THEN 0
    ELSE 1 + Len(shared) + Len(entries_bytes(inline, Len(inline))) \div C_INT_SIZE

XImage(version, nid, inline, shared, pool) ==
    [version |-> version, nid |-> nid, inline |-> inline, shared |-> shared,
     pool |-> pool, icount |-> image_icount(inline, shared)]

xattr_inode(x) ==
    [nid |-> x.nid, version |-> x.version, layout |-> "FlatPlain", i_size |-> 0,
     xattr_icount |-> x.icount, i_u |-> 0]

xattr_extents(s, x) ==
    (IF x.icount = 0 THEN <<>>
     ELSE << [at |-> iloc(s, x.nid) + inode_size(xattr_inode(x)), bytes |-> xattr_area(x)] >>)
    \o [k \in 1..Len(x.pool) |->
            [at |-> blkpos(s, s.xattr_blkaddr) + 4 * x.pool[k].index,
             bytes |-> entry_bytes(x.pool[k].entry)]]

(***************************************************************************)
(* The images of SpecXattr.  The device has 16 blocks of 512 bytes.  The   *)
(* inode of nid 252 sits in the last TempBlock, close to the end of the    *)
(* device; the xattr area of nid 125 crosses the TempBlock boundary 4096.  *)
(***************************************************************************)
ListBufLen == 64
NID_LAST == 252
NID_CROSS == 125

Str_bc == <<98, 99>>
Str_s == <<115>>
Str_t == <<116>>
Str_zz == <<122, 122>>

\* xattr_infixes(): the images carry no long prefixes (xattr_prefix_count = 0)
XInfixes == <<>>

E_user_a == XEntry(1, Str_a, <<9, 7, 7>>)
E_trusted_bc == XEntry(4, Str_bc, <<5, 6>>)
E_user_bc == XEntry(1, Str_bc, <<4, 4, 4, 4>>)
E_security_s == XEntry(6, Str_s, <<3, 3, 3>>)
E_trusted_t == XEntry(4, Str_t, <<8>>)
\* a value whose second word reads as the header of a trusted.?? entry
E_user_a_words == XEntry(1, Str_a, <<9, 7, 7, 2, 4, 0, 0>>)
E_user_a_long == XEntry(1, Str_a, [j \in 1..20 |-> 200 + j])

XPool == << [index |-> 2, entry |-> E_security_s], [index |-> 4, entry |-> E_trusted_t] >>

XImages ==
    { XImage("Extended", NID_LAST, <<E_user_a, E_trusted_bc, E_user_bc>>, <<2, 4>>, XPool),
      XImage("Extended", NID_LAST, <<E_user_a_words, E_trusted_bc>>, <<>>, XPool),
      XImage("Extended", NID_CROSS, <<E_user_a_long, E_trusted_bc>>, <<2>>, XPool),
      XImage("Extended", NID_LAST, <<>>, <<2, 4>>, XPool),
      XImage("Extended", NID_LAST, <<>>, <<>>, XPool),
      XImage("Compact", NID_LAST, <<>>, <<>>, XPool),
      XImage("Compact", NID_LAST, <<E_user_a, E_trusted_bc>>, <<2>>, XPool) }

InitXattr ==
    /\ build \in Builds
    /\ sb = [blkszbits |-> 9, meta_blkaddr |-> 0, xattr_blkaddr |-> 1, blocks |-> 16]
    /\ devinfo = [mask |-> 0]
    /\ xattrs \in XImages
    /\ inode = xattr_inode(xattrs)
    /\ slots = <<>> /\ itab = <<>> /\ tree = <<>>
    /\ disk = xattr_extents(sb, xattrs)
    /\ mres = NoMap /\ iter = IdleIter /\ bufs = <<>>
    /\ fres = NoCall /\ lres = NoCall
    /\ gres = NoCall /\ xlres = NoCall
    /\ ores = NoCall /\ sres = NoCall /\ cres = NoCall /\ dres = NoCall

XFS ==
    [build |-> build, sb |-> sb, disk |-> disk, size |-> blkpos(sb, sb.blocks),
     infixes |-> XInfixes]

XIndexes == {1, 4, 6}
XNames == {Str_a, Str_bc, Str_s, Str_t, Str_zz}
XBuffers == {[some |-> FALSE, len |-> 0]} \cup [some : {TRUE}, len : {0, 2, 32}]

\* get_xattr and list_xattrs read the image and change nothing of it: a
\* behaviour observes one call of each.  The inode is the one iget builds:
\* its shared indexes are read when the inode is loaded.
GetXattr(index, name, buffer) ==
    /\ ~gres.called
    /\ gres' = [called |-> TRUE, index |-> index, name |-> name, buffer |-> buffer,
                r |-> get_xattr(XFS, inode,
                                read_inode_xattrs_shared_entries(XFS, inode.nid, inode),
                                [index |-> index, name |-> name, buffer |-> buffer])]
    /\ UNCHANGED <<image, mapvars, dirvars, xlres, obsvars>>

ListXattrs(len) ==
    /\ ~xlres.called
    /\ xlres' = [called |-> TRUE, len |-> len,
                 r |-> list_xattrs(XFS, inode,
                                   read_inode_xattrs_shared_entries(XFS, inode.nid, inode),
                                   len)]
    /\ UNCHANGED <<image, mapvars, dirvars, gres, obsvars>>

NextXattr ==
    \/ \E index \in XIndexes, name \in XNames, buffer \in XBuffers :
           GetXattr(index, name, buffer)
    \/ \E len \in {ListBufLen, 8} : ListXattrs(len)

SpecXattr == InitXattr /\ [][NextXattr]_vars

(***************************************************************************)
(* What the image says: the inode's entries in the order inline, then      *)
(* shared by index, each with the address of its suffix bytes, its         *)
(* real-prefix index and its name without the real prefix.                 *)
(***************************************************************************)
inline_entry_at(s, x, k) ==
    iloc(s, x.nid) + inode_size(xattr_inode(x)) + SUMMARY_SIZE + 4 * Len(x.shared)
    + Len(entries_bytes(x.inline, k - 1)) + XATTR_ENTRY_HEADER_SIZE

pool_entry(x, index) == x.pool[CHOOSE k \in DOMAIN x.pool : x.pool[k].index = index].entry

key_index(e) ==
    IF is_long(e.name_index)
    THEN infix(XInfixes, e.name_index - EROFS_XATTR_LONG_PREFIX).prefix_index
    ELSE e.name_index

key_name(e) ==
    IF is_long(e.name_index)
    THEN infix(XInfixes, e.name_index - EROFS_XATTR_LONG_PREFIX).name \o e.suffix
    ELSE e.suffix

image_entries(s, x) ==
    [k \in 1..Len(x.inline) |-> [entry |-> x.inline[k], at |-> inline_entry_at(s, x, k)]]
    \o [k \in 1..Len(x.shared) |->
            [entry |-> pool_entry(x, x.shared[k]),
             at |-> blkpos(s, s.xattr_blkaddr) + 4 * x.shared[k] + XATTR_ENTRY_HEADER_SIZE]]

key_matches(e, index, name) == key_index(e) = index /\ key_name(e) = name

listed_name(e) == prefix(key_index(e)) \o key_name(e)

RECURSIVE listing(_, _)
listing(es, k) ==
    IF k = 0 THEN <<>> ELSE listing(es, k - 1) \o listed_name(es[k].entry) \o <<0>>

\* the names in a list_xattrs output, without their terminating NUL
RECURSIVE emitted_from(_, _, _)
emitted_from(out, k, name) ==
    IF k > Len(out) THEN <<>>
    ELSE IF out[k] = 0 THEN <<name>> \o emitted_from(out, k + 1, <<>>)
    ELSE emitted_from(out, k + 1, Append(name, out[k]))

emitted(out) == emitted_from(out, 1, <<>>)

Entries == image_entries(sb, xattrs)

\* the first entry, in listing order, with the key of entry k
first_with_key(es, k) ==
    CHOOSE j \in 1..k :
        /\ key_matches(es[j].entry, key_index(es[k].entry), key_name(es[k].entry))
        /\ \A h \in 1..(j - 1) :
               ~key_matches(es[h].entry, key_index(es[k].entry), key_name(es[k].entry))

fits(buffer, value) == buffer.some => buffer.len >= Len(value)

(***************************************************************************)
(* C7.  Round trip between list_xattrs and get_xattr: whenever list_xattrs *)
(* has returned Ok, then for every name it emitted (at any position k of   *)
(* the inline-then-shared sequence), get_xattr called with that entry's    *)
(* real-prefix index and the name without the real prefix (and no buffer,  *)
(* or one that fits the value) returns a non-error value, found at the     *)
(* first entry with that key in the order list_xattrs emitted them.        *)
(***************************************************************************)
C7_RoundTrip ==
    (gres.called /\ xlres.called /\ xlres.r.st = "ok") =>
        \A k \in 1..Len(emitted(xlres.r.out)) :
            ( /\ k <= Len(Entries)
              /\ emitted(xlres.r.out)[k] = listed_name(Entries[k].entry)
              /\ key_matches(Entries[k].entry, gres.index, gres.name)
              /\ fits(gres.buffer, Entries[first_with_key(Entries, k)].entry.value) )
            => /\ gres.r.st = "ok"
               /\ gres.r.at = Entries[first_with_key(Entries, k)].at

(***************************************************************************)
(* C8.  get_xattr returns ENODATA whenever no inline or shared entry of    *)
(* the inode has a key matching (index, name); inodes without xattrs       *)
(* (i_xattr_icount = 0, compact or extended) included.                     *)
(***************************************************************************)
C8_NoData ==
    ( /\ gres.called
      /\ \A k \in 1..Len(Entries) : ~key_matches(Entries[k].entry, gres.index, gres.name) )
    => gres.r.st = "err" /\ gres.r.e = "ENODATA"

C10_ListXattrs ==
    (xlres.called /\ xlres.len >= Len(listing(Entries, Len(Entries))))
    => xlres.r = ListResult("ok", listing(Entries, Len(Entries)))

(***************************************************************************)
(* C11.  list_xattrs fails with ERANGE, as a returned error and not as a   *)
(* panic, whenever the buffer is too small to hold all the names of the    *)
(* inode's entries with their NUL terminators.                             *)
(***************************************************************************)
C11_ListErange ==
    (xlres.called /\ xlres.len < Len(listing(Entries, Len(Entries))))
    => xlres.r.st = "ERANGE"

(***************************************************************************)
(* Opening an image: superblock.rs From<[u8; 128]> for SuperBlock,         *)
(* operations.rs get_xattr_infixes, devices.rs get_device_infos and        *)
(* superblock/file.rs ImageFileSystem::try_new.  A u32 of 2^31 or more and *)
(* a negative i16/i32 are kept in the wrap convention.                     *)
(***************************************************************************)
EROFS_SUPER_OFFSET == 1024
SUPERBLOCK_SIZE == 128      \* size_of::<SuperBlock>()
DEVICE_SLOT_SIZE == 128     \* size_of::<DeviceSlot>()
SB_MAGIC == -520756766      \* 0xE0F5E1E2, in the wrap convention

\* u32::from_le_bytes / i32::from_le_bytes of four bytes
u32_from_le_bytes(bytes) ==
    le_value(SubSeq(bytes, 1, 3))
        + 16777216 * (IF bytes[4] >= 128 THEN bytes[4] - 256 ELSE bytes[4])

\* i16::from_le_bytes of two bytes, then `as Off`
i16_from_le_bytes(bytes) ==
    IF bytes[2] >= 128 THEN le_value(bytes) - 65536 ELSE le_value(bytes)

SuperBlock_from(value) ==
    [magic |-> u32_from_le_bytes(SubSeq(value, 1, 4)),
     blkszbits |-> value[13],
     root_nid |-> i16_from_le_bytes(SubSeq(value, 15, 16)),
     blocks |-> u32_from_le_bytes(SubSeq(value, 37, 40)),
     meta_blkaddr |-> u32_from_le_bytes(SubSeq(value, 41, 44)),
     xattr_blkaddr |-> u32_from_le_bytes(SubSeq(value, 45, 48)),
     extra_devices |-> i16_from_le_bytes(SubSeq(value, 87, 88)),
     devt_slotoff |-> i16_from_le_bytes(SubSeq(value, 89, 90)),
     xattr_prefix_count |-> value[92],
     xattr_prefix_start |-> u32_from_le_bytes(SubSeq(value, 93, 96))]

DeviceSlot_from(data) ==
    [blocks |-> u32_from_le_bytes(SubSeq(data, 65, 68)),
     mapped_blocks |-> u32_from_le_bytes(SubSeq(data, 69, 72))]

\* get_xattr_infixes: `while cur <= len` over one buffer; buf[cur] and the
\* slice buf[cur + 2 .. cur + 2 + size] are index-checked
RECURSIVE get_xattr_infixes_buffer(_, _, _, _)
get_xattr_infixes_buffer(fs, p, cur, result) ==
    IF cur > p.dlen
    THEN [st |-> "ok", result |-> result]
    ELSE IF cur + 1 >= p.dlen
    THEN [st |-> "panic", result |-> result]
    ELSE LET size == le_value(content(fs, p, cur, 2))
         IN IF cur + 2 + size > p.dlen
            THEN [st |-> "panic", result |-> result]
            ELSE get_xattr_infixes_buffer(fs, p, RoundUp(cur + 2 + size, 4),
                                          Append(result, content(fs, p, cur + 2, size)))

\* `for data in iter`: a buffer that does not advance the iterator is
\* yielded again and again
RECURSIVE get_xattr_infixes(_, _, _), get_xattr_infixes_arm(_, _, _)
get_xattr_infixes_arm(fs, nx, r) ==
    IF r.st # "ok"
    THEN r
    ELSE IF nx.p.dlen = 0
    THEN [st |-> "hang", result |-> r.result]
    ELSE get_xattr_infixes(fs, nx.p, r.result)

get_xattr_infixes(fs, p, result) ==
    LET nx == ContinuousTempBufferIter_next(fs, p)
    IN IF nx.none
       THEN [st |-> "ok", result |-> result]
       ELSE get_xattr_infixes_arm(fs, nx,
                                  get_xattr_infixes_buffer(fs, nx.p, 0, result))

RECURSIVE ilog2(_)
ilog2(n) == IF n <= 1 THEN 0 ELSE 1 + ilog2(n \div 2)

\* get_device_infos: `while cur + 128 <= len` over one buffer
RECURSIVE get_device_infos_buffer(_, _, _, _)
get_device_infos_buffer(fs, p, cur, specs) ==
    IF cur + DEVICE_SLOT_SIZE <= p.dlen
    THEN get_device_infos_buffer(fs, p, cur + DEVICE_SLOT_SIZE,
             Append(specs, DeviceSlot_from(content(fs, p, cur, DEVICE_SLOT_SIZE))))
    ELSE specs

\* a DeviceInfo whose mask has the bits of floor(log2(count)) only
DeviceInfo_floor(specs) ==
    [mask |-> IF specs = <<>> THEN 0 ELSE 2 ^ ilog2(Len(specs)) - 1,
     specs |-> specs]

DeviceInfo(specs) ==
    [mask |-> IF specs = <<>> THEN 0 ELSE 2 ^ (ilog2(Len(specs)) + 1) - 1,
     specs |-> specs]

RECURSIVE get_device_infos(_, _, _)
get_device_infos(fs, p, specs) ==
    LET nx == ContinuousTempBufferIter_next(fs, p)
    IN IF nx.none
       THEN [st |-> "ok", info |-> DeviceInfo(specs)]
       ELSE IF nx.p.dlen = 0
       THEN [st |-> "hang", info |-> DeviceInfo(specs)]
       ELSE get_device_infos(fs, nx.p, get_device_infos_buffer(fs, nx.p, 0, specs))

\* backend.fill(&mut buf, EROFS_SUPER_OFFSET) into SUPERBLOCK_EMPTY_BUF: the
\* bytes past the end of the file stay zero
superblock_buf(dsk, size) ==
    [j \in 1..SUPERBLOCK_SIZE |->
        IF EROFS_SUPER_OFFSET + j - 1 < size
        THEN byte_at(dsk, EROFS_SUPER_OFFSET + j - 1) ELSE 0]

NoDeviceInfo == DeviceInfo(<<>>)

\* the tail of try_new, after the superblock has been decoded
try_new_devices(s, infixes, d) ==
    IF infixes.st # "ok"
    THEN [st |-> infixes.st, sb |-> s, infixes |-> infixes.result,
          device_info |-> NoDeviceInfo]
    ELSE [st |-> d.st, sb |-> s, infixes |-> infixes.result, device_info |-> d.info]

try_new_decoded(fs) ==
    try_new_devices(fs.sb,
        get_xattr_infixes(fs,
            ContinuousTempBufferIter_new(fs.sb.xattr_prefix_start,
                                         fs.sb.xattr_prefix_count * 4), <<>>),
        get_device_infos(fs,
            ContinuousTempBufferIter_new(fs.sb.devt_slotoff * DEVICE_SLOT_SIZE,
                                         fs.sb.extra_devices * DEVICE_SLOT_SIZE), <<>>))

\* ImageFileSystem::try_new(backend)
try_new(b, dsk, size) ==
    try_new_decoded([build |-> b, sb |-> SuperBlock_from(superblock_buf(dsk, size)),
                     disk |-> dsk, size |-> size, infixes |-> <<>>])

(***************************************************************************)
(* The images that are opened: a superblock at byte 1024, the device table *)
(* behind it and one infix record behind the device table.                 *)
(***************************************************************************)
superblock_bytes(s) ==
    [j \in 1..SUPERBLOCK_SIZE |->
        CASE j \in 1..4 -> to_le_bytes(s.magic, 4)[j]
          [] j = 13 -> s.blkszbits
          [] j \in 15..16 -> to_le_bytes(s.root_nid, 2)[j - 14]
          [] j \in 37..40 -> to_le_bytes(s.blocks, 4)[j - 36]
          [] j \in 41..44 -> to_le_bytes(s.meta_blkaddr, 4)[j - 40]
          [] j \in 45..48 -> to_le_bytes(s.xattr_blkaddr, 4)[j - 44]
          [] j \in 87..88 -> to_le_bytes(s.extra_devices, 2)[j - 86]
          [] j \in 89..90 -> to_le_bytes(s.devt_slotoff, 2)[j - 88]
          [] j = 92 -> s.xattr_prefix_count
          [] j \in 93..96 -> to_le_bytes(s.xattr_prefix_start, 4)[j - 92]
          [] OTHER -> 0]

device_slot_bytes(blocks) ==
    [j \in 1..DEVICE_SLOT_SIZE |->
        IF j \in 65..68 THEN to_le_bytes(blocks, 4)[j - 64] ELSE 0]

DEVT_SLOTOFF == 9       \* the device table follows the superblock
PREFIX_START == 1408    \* the infix record follows two device slots
OpenBlocks == 16        \* the images that are opened have 16 blocks

Magics == {SB_MAGIC, 0, SB_MAGIC + 1}

open_extents(s) ==
    << [at |-> EROFS_SUPER_OFFSET, bytes |-> superblock_bytes(s)],
       [at |-> DEVT_SLOTOFF * DEVICE_SLOT_SIZE,
        bytes |-> device_slot_bytes(32) \o device_slot_bytes(48)],
       [at |-> PREFIX_START, bytes |-> <<2, 0, 1, 120>>] >>

InitOpen ==
    /\ build \in Builds
    /\ sb \in [magic : Magics, blkszbits : BlkSzBits, root_nid : {36},
               blocks : {OpenBlocks}, meta_blkaddr : {0}, xattr_blkaddr : {1},
               extra_devices : 0..2, devt_slotoff : {DEVT_SLOTOFF},
               xattr_prefix_count : {0, 1}, xattr_prefix_start : {PREFIX_START}]
    /\ devinfo = [mask |-> 0]
    /\ inode = NoInode
    /\ slots = <<>> /\ itab = <<>> /\ tree = <<>> /\ xattrs = <<>>
    /\ disk = open_extents(sb)
    /\ mres = NoMap /\ iter = IdleIter /\ bufs = <<>>
    /\ fres = NoCall /\ lres = NoCall
    /\ gres = NoCall /\ xlres = NoCall
    /\ ores = NoCall /\ sres = NoCall /\ cres = NoCall /\ dres = NoCall

\* open(backend): the image file holds sb.blocks blocks
Open ==
    /\ ~ores.called
    /\ ores' = [called |-> TRUE, r |-> try_new(build, disk, blkpos(sb, sb.blocks))]
    /\ UNCHANGED <<image, mapvars, dirvars, xvars, sres, cres, dres>>

NextOpen == Open

SpecOpen == InitOpen /\ [][NextOpen]_vars

(***************************************************************************)
(* C12.  open(backend) reads the 128-byte superblock at byte offset 1024   *)
(* and rejects the image with EINVAL when the decoded magic differs from   *)
(* 0xE0F5E1E2: a filesystem handle is returned only for images whose magic *)
(* equals that constant.                                                   *)
(***************************************************************************)
C12_MagicChecked ==
    ores.called =>
        /\ ores.r.sb = sb
        /\ ores.r.st = "ok" => sb.magic = SB_MAGIC
        /\ sb.magic # SB_MAGIC => ores.r.st = "EINVAL"

(***************************************************************************)
(* C13.  Every buffer iterator terminates after the first error: a         *)
(* block-map or backend failure is yielded as Some(Err(e)), not silently   *)
(* turned into end-of-stream, and after Some(Err(e)) every later next()    *)
(* returns None.  For the mapped_iter: next() returns None only at the end *)
(* of the file, never in place of an error of map.                         *)
(***************************************************************************)
C13_ErrorsYielded ==
    iter.status = "done" => (iter.swallowed = "none" /\ iter.offset >= file_size(inode))

(***************************************************************************)
(* inode.rs: Format::version and Format::layout, the bit fields of         *)
(* i_format; and the specification of map over every layout the field can  *)
(* hold.                                                                   *)
(***************************************************************************)
INODE_VERSION_MASK == 1
INODE_VERSION_BIT == 0
INODE_LAYOUT_BIT == 1
INODE_LAYOUT_MASK == 7

\* extract!(name, bit, mask) == (name >> bit) & mask, for a mask 2^k - 1
extract(name, bit, mask) == (name \div 2 ^ bit) % (mask + 1)

Format_version(i_format) ==
    IF extract(i_format, INODE_VERSION_BIT, INODE_VERSION_MASK) = 0
    THEN "Compact" ELSE "Extended"

Format_layout(i_format) ==
    CASE extract(i_format, INODE_LAYOUT_BIT, INODE_LAYOUT_MASK) = 0 -> "FlatPlain"
      [] extract(i_format, INODE_LAYOUT_BIT, INODE_LAYOUT_MASK) = 1 -> "CompressedFull"
      [] extract(i_format, INODE_LAYOUT_BIT, INODE_LAYOUT_MASK) = 2 -> "FlatInline"
      [] extract(i_format, INODE_LAYOUT_BIT, INODE_LAYOUT_MASK) = 3 -> "CompressedCompact"
      [] extract(i_format, INODE_LAYOUT_BIT, INODE_LAYOUT_MASK) = 4 -> "Chunk"
      [] OTHER -> "Unknown"

MaxFormat == 15      \* i_format ranges over 0..MaxFormat

InitLayout ==
    /\ build \in Builds
    /\ sb \in [blkszbits : BlkSzBits, meta_blkaddr : {1}]
    /\ devinfo = [mask |-> 0]
    /\ \E f \in 0..MaxFormat :
         inode \in [nid : {2}, version : {Format_version(f)}, layout : {Format_layout(f)},
                    i_size : FileSizes(sb.blkszbits), xattr_icount : {1},
                    i_u : RawUnions(Format_layout(f))]
    /\ inode.layout = "FlatInline" => inline_fits(sb, inode)
    /\ slots \in (IF inode.layout = "Chunk" THEN ChunkTables ELSE {<<>>})
    /\ disk = <<>> /\ itab = <<>> /\ tree = <<>> /\ xattrs = <<>>
    /\ mres = NoMap /\ iter = IdleIter /\ bufs = <<>>
    /\ fres = NoCall /\ lres = NoCall
    /\ gres = NoCall /\ xlres = NoCall
    /\ ores = NoCall /\ sres = NoCall /\ cres = NoCall /\ dres = NoCall

NextLayout == \E o \in ProbeOffsets : Map(o)

SpecLayout == InitLayout /\ [][NextLayout]_vars

(***************************************************************************)
(* C14.  map(inode, offset) on an inode whose layout is CompressedFull,    *)
(* CompressedCompact or Unknown returns the error value EOPNOTSUPP; it     *)
(* never panics or aborts.                                                 *)
(***************************************************************************)
C14_Unsupported ==
    (Mapped /\ layout(inode) \in {"CompressedFull", "CompressedCompact", "Unknown"})
        => mres.r = MapErr("EOPNOTSUPP")

(***************************************************************************)
(* C15.  chunk_map(inode, offset) returns EUCLEAN whenever the chunk slot  *)
(* covering offset holds block address 0xFFFFFFFF, in both the 8-byte      *)
(* chunk-index format and the 4-byte legacy format, and returns a Map for  *)
(* every other stored block address.                                       *)
(***************************************************************************)
C15_HoleEuclean ==
    (Mapped /\ layout(inode) = "Chunk") =>
        IF image_is_hole(sb, inode, slots, mres.off)
        THEN mres.r = MapErr("EUCLEAN")
        ELSE mres.r.ok

(***************************************************************************)
(* Chunk-index inodes on a filesystem with extra devices: the DeviceInfo   *)
(* is the one get_device_infos builds from the device table, the slots     *)
(* name devices inside and outside the table.                              *)
(***************************************************************************)
MaxDevices == 2      \* extra_devices ranges over 0..MaxDevices

DeviceSpecs(n) == [k \in 1..n |-> [blocks |-> 32, mapped_blocks |-> 0]]

DeviceTables ==
    { <<[device_id |-> 0, blkaddr |-> 8], [device_id |-> 1, blkaddr |-> 13],
        [device_id |-> 2, blkaddr |-> 5]>>,
      <<[device_id |-> 3, blkaddr |-> 6], [device_id |-> 7, blkaddr |-> 9],
        [device_id |-> 4, blkaddr |-> 4]>> }

InitDevice ==
    /\ build \in Builds
    /\ sb \in [blkszbits : BlkSzBits, meta_blkaddr : {1}]
    /\ devinfo \in {DeviceInfo(DeviceSpecs(n)) : n \in 0..MaxDevices}
    /\ inode \in [nid : {2}, version : {"Extended"}, layout : {"Chunk"},
                  i_size : FileSizes(sb.blkszbits), xattr_icount : {1},
                  i_u : {cb + CHUNK_FORMAT_INDEX_BIT : cb \in 0..MaxChunkBits}]
    /\ slots \in DeviceTables
    /\ disk = <<>> /\ itab = <<>> /\ tree = <<>> /\ xattrs = <<>>
    /\ mres = NoMap /\ iter = IdleIter /\ bufs = <<>>
    /\ fres = NoCall /\ lres = NoCall
    /\ gres = NoCall /\ xlres = NoCall
    /\ ores = NoCall /\ sres = NoCall /\ cres = NoCall /\ dres = NoCall

NextDevice == \E o \in ProbeOffsets : Map(o)

SpecDevice == InitDevice /\ [][NextDevice]_vars

\* the device id stored in the slot of the chunk that holds byte k, masked
masked_device_id(s, d, i, tbl, k) ==
    tbl[(k \div chunksz(s, i)) + 1].device_id % (d.mask + 1)

(***************************************************************************)
(* C16.  When a chunk index's device id, after masking with                *)
(* DeviceInfo.mask, does not denote a device in the table (masked id       *)
(* greater than the number of extra devices), mapping that chunk fails     *)
(* with ENODEV instead of returning a Map for a nonexistent device.        *)
(***************************************************************************)
C16_NoDevice ==
    (Mapped /\ masked_device_id(sb, devinfo, inode, slots, mres.off) > Len(devinfo.specs))
        => mres.r = MapErr("ENODEV")

(***************************************************************************)
(* inode.rs: a call of InodeInfo::xattr_size, with the overflow check of a *)
(* debug build, on inodes of both versions.                                *)
(***************************************************************************)
U16_MAX == 65535

xattr_size_call(b, i) ==
    IF b = "debug" /\ xattr_size_overflows(i)
    THEN [st |-> "panic", v |-> 0]
    ELSE [st |-> "ok", v |-> xattr_size(i)]

InitInode ==
    /\ build \in Builds
    /\ sb \in [blkszbits : BlkSzBits, meta_blkaddr : {1}]
    /\ devinfo = [mask |-> 0]
    /\ \E f \in 0..MaxFormat :
         inode \in [nid : {2}, version : {Format_version(f)}, layout : {Format_layout(f)},
                    i_size : FileSizes(sb.blkszbits),
                    xattr_icount : (0..MaxIcount) \cup {U16_MAX}, i_u : {3}]
    /\ slots = <<>> /\ disk = <<>> /\ itab = <<>> /\ tree = <<>> /\ xattrs = <<>>
    /\ mres = NoMap /\ iter = IdleIter /\ bufs = <<>>
    /\ fres = NoCall /\ lres = NoCall
    /\ gres = NoCall /\ xlres = NoCall
    /\ ores = NoCall /\ sres = NoCall /\ cres = NoCall /\ dres = NoCall

\* inode.info().xattr_size()
XattrSize ==
    /\ ~sres.called
    /\ sres' = [called |-> TRUE, r |-> xattr_size_call(build, inode)]
    /\ UNCHANGED <<image, mapvars, dirvars, xvars, ores, cres, dres>>

NextInode == XattrSize

SpecInode == InitInode /\ [][NextInode]_vars

(***************************************************************************)
(* C17.  For every inode, compact or extended, xattr_size() is 0 when      *)
(* xattr_icount = 0 and 12 + 4 * (xattr_icount - 1) when xattr_icount > 0, *)
(* with no integer underflow for any 16-bit xattr_icount.                  *)
(***************************************************************************)
C17_XattrSize ==
    sres.called =>
        sres.r = [st |-> "ok",
                  v |-> IF inode.xattr_icount = 0 THEN 0
                        ELSE 12 + 4 * (inode.xattr_icount - 1)]

(***************************************************************************)
(* A SkippableContinuousIter over a byte range that crosses a TempBlock    *)
(* boundary: the cursor is moved by skip, then a read followed by a        *)
(* try_cmp is set against one try_cmp from the same state.                 *)
(***************************************************************************)
MaxRead == 3         \* read buffers hold 0..MaxRead bytes
MaxRef == 3          \* compared references hold 0..MaxRef bytes
MaxSkip == 2         \* skip(1) .. skip(MaxSkip)

IterBase == 4088     \* the bytes 4088 .. 4103 of the image differ pairwise
IterBytes == [j \in 1..16 |-> 10 + j]

IterStarts == {[offset |-> IterBase, len |-> 8], [offset |-> IterBase, len |-> 12],
               [offset |-> IterBase + 4, len |-> 6], [offset |-> IterBase + 4, len |-> 12],
               [offset |-> IterBase + 7, len |-> 5], [offset |-> IterBase + 8, len |-> 8]}

InitIter ==
    /\ build \in Builds
    /\ sb = [blkszbits |-> 9, meta_blkaddr |-> 0, xattr_blkaddr |-> 1, blocks |-> 16]
    /\ devinfo = [mask |-> 0]
    /\ inode = NoInode
    /\ slots = <<>> /\ itab = <<>> /\ tree = <<>> /\ xattrs = <<>>
    /\ disk = << [at |-> IterBase, bytes |-> IterBytes] >>
    /\ mres = NoMap /\ iter = IdleIter /\ bufs = <<>>
    /\ fres = NoCall /\ lres = NoCall
    /\ gres = NoCall /\ xlres = NoCall
    /\ ores = NoCall /\ sres = NoCall /\ dres = NoCall
    /\ \E s \in IterStarts :
         cres = [called |-> FALSE,
                 p |-> SkippableContinuousIter_try_new(XFS,
                           ContinuousTempBufferIter_new(s.offset, s.len)).p]

\* the bytes still to come: the rest of the buffer and the rest of the range
remaining(p) == (p.dlen - p.cur) + p.len

Skip_arm(r) ==
    /\ r.st = "ok"
    /\ cres' = [cres EXCEPT !.p = r.p]

\* iter.skip(n)
Skip(n) ==
    /\ ~cres.called
    /\ Skip_arm(skip(XFS, cres.p, n))
    /\ UNCHANGED <<image, mapvars, dirvars, xvars, ores, sres, dres>>

\* the r bytes that follow the next k bytes of the image, the j-th altered
reference(p, k, r, j) ==
    [i \in 1..r |-> IF i = j THEN 255
                    ELSE byte_at(disk, p.at + p.cur + k + i - 1)]

\* iter.read(buf)?; iter.try_cmp(ref)
read_then_cmp(fs, rd, ref) ==
    IF rd.st # "ok" THEN [st |-> rd.st, n |-> 0, p |-> rd.p]
    ELSE try_cmp(fs, rd.p, ref)

ReadThenCmp_arm(k, ref, rd) ==
    cres' = [called |-> TRUE, p |-> cres.p, k |-> k, ref |-> ref, buf |-> rd.buf,
             two |-> read_then_cmp(XFS, rd, ref),
             one |-> try_cmp(XFS, cres.p, rd.buf \o ref)]

\* read(buf) with |buf| = k, then try_cmp(ref); and, from the same state,
\* try_cmp(buf ++ ref)
ReadThenCmp(k, r, j) ==
    /\ ~cres.called
    /\ cres.p.len >= 0
    /\ k + r <= remaining(cres.p)
    /\ ReadThenCmp_arm(k, reference(cres.p, k, r, j), read(XFS, cres.p, k))
    /\ UNCHANGED <<image, mapvars, dirvars, xvars, ores, sres, dres>>

NextIter ==
    \/ \E n \in 1..MaxSkip : Skip(n)
    \/ \E k \in 0..MaxRead, r \in 0..MaxRef : \E j \in 0..r : ReadThenCmp(k, r, j)

SpecIter == InitIter /\ [][NextIter]_vars

(***************************************************************************)
(* C18.  For a SkippableContinuousIter at any cursor position and any      *)
(* lengths k, r with k + r not exceeding the remaining bytes: read(buf)    *)
(* with |buf| = k followed by try_cmp(ref) gives the same Ok / NotEqual    *)
(* outcome and, on Ok, the same final cursor position as one               *)
(* try_cmp(buf' ++ ref) from the same starting state, buf' being the k     *)
(* bytes that read returned, wherever the buffer joins fall.               *)
(***************************************************************************)
C18_ReadThenCmp ==
    cres.called =>
        /\ cres.two.st \in {"ok", "noteq"}
        /\ cres.two.st = cres.one.st
        /\ cres.one.st = "ok" => cres.two.p = cres.one.p

\* a read that starts in one buffer and ends in the next, followed by a
\* compare that succeeds there
C18_Witness ==
    /\ cres.called
    /\ cres.k >= 1 /\ Len(cres.ref) >= 1
    /\ cres.p.at < EROFS_TEMP_BLOCK_SZ
    /\ cres.p.dlen - cres.p.cur < cres.k
    /\ cres.p.dlen - cres.p.cur >= 1
    /\ cres.one.st = "ok" /\ cres.two.st = "ok"
    /\ cres.two.p.at = EROFS_TEMP_BLOCK_SZ
    /\ cres.two.p.cur = cres.k + Len(cres.ref) - (cres.p.dlen - cres.p.cur)

(***************************************************************************)
(* superblock.rs: FileSystem::fill_dentries.  The emitter is a callback    *)
(* that returns true at its stop-th call (never, for stop = 0); acc holds  *)
(* cnt, pos and the calls of the emitter made so far, each with the        *)
(* dirent's nid and name and the position passed.  walk_dirents is the     *)
(* inner for loop over one DirCollection: it ends "more" at the end of the *)
(* block, "stopped" when the emitter returned true, or "panic".            *)
(***************************************************************************)
Emit(d, pos) == [nid |-> d.nid, name |-> d.name, pos |-> pos]

RECURSIVE walk_dirents(_, _, _, _, _)
walk_dirent(d, c, index, acc, skipents, stop) ==
    CASE d.kind = "none" -> [acc EXCEPT !.st = "more"]
      [] d.kind = "panic" -> [acc EXCEPT !.st = "panic"]
      [] acc.cnt >= skipents /\ Len(acc.emits) + 1 = stop ->
            [acc EXCEPT !.st = "stopped", !.emits = Append(@, Emit(d, acc.pos))]
      [] OTHER ->
            walk_dirents(c, index + 1,
                         [acc EXCEPT !.emits = IF acc.cnt >= skipents
                                               THEN Append(@, Emit(d, acc.pos)) ELSE @,
                                     !.pos = @ + DIRENT_DESC_SIZE,
                                     !.cnt = @ + 1],
                         skipents, stop)

\* DirCollection as Iterator: next() is dirent(self.offset)
walk_dirents(c, index, acc, skipents, stop) ==
    walk_dirent(dirent(c, index), c, index, acc, skipents, stop)

FillResult(st, emits) == [st |-> st, emits |-> emits]

\* the loop `for buf in map_iter`
RECURSIVE fill_dentries_from(_, _, _, _, _, _)
fill_dentries_walked(a, fs, i, offset, skipents, stop) ==
    CASE a.st = "more" ->
            fill_dentries_from(fs, i, offset, [a EXCEPT !.pos = RoundUp(@, blksz(fs.sb))],
                               skipents, stop)
      [] a.st = "stopped" -> FillResult("ok", a.emits)
      [] OTHER -> FillResult("panic", a.emits)

fill_dentries_buf(r, fs, i, acc, skipents, stop) ==
    CASE r.status = "done" -> FillResult("ok", acc.emits)
      [] r.status = "panic" -> FillResult("panic", acc.emits)
      [] OTHER ->
          fill_dentries_walked(
              walk_dirents(DirCollection_new(fill(fs.disk, r.buf.start, r.buf.len)),
                           0, acc, skipents, stop),
              fs, i, r.offset, skipents, stop)

fill_dentries_from(fs, i, offset, acc, skipents, stop) ==
    fill_dentries_buf(TempBufferMapIter_next(fs.build, fs.sb, fs.devinfo, i, fs.slots, offset),
                      fs, i, acc, skipents, stop)

\* the first buffer: map_iter.next().unwrap()?, skip_dir, the first for loop
fill_dentries_first_walk(c, index, acc, skipents, stop) ==
    IF index <= c.total
    THEN walk_dirents(c, index, acc, skipents, stop)
    ELSE [acc EXCEPT !.st = "more"]

fill_dentries_first(r, fs, i, blk_offset, acc, skipents, stop) ==
    IF r.status # "running"
    THEN FillResult("panic", <<>>)
    ELSE fill_dentries_walked(
             fill_dentries_first_walk(
                 DirCollection_new(fill(fs.disk, r.buf.start, r.buf.len)),
                 blk_offset \div DIRENT_DESC_SIZE, acc, skipents, stop),
             fs, i, r.offset, skipents, stop)

fill_dentries(fs, i, offset, skipents, stop) ==
    LET accessor == blk_access(fs.sb, offset)
        map_offset == RoundDown(offset, blksz(fs.sb))
        blk_offset == RoundUp(accessor.off, DIRENT_DESC_SIZE)
    IN IF offset > file_size(i)
       THEN FillResult("EUCLEAN", <<>>)
       ELSE fill_dentries_first(
                TempBufferMapIter_next(fs.build, fs.sb, fs.devinfo, i, fs.slots, map_offset),
                fs, i, blk_offset,
                [st |-> "more", cnt |-> 0, pos |-> map_offset + blk_offset, emits |-> <<>>],
                skipents, stop)

(***************************************************************************)
(* The readdir specification: the directories of the tree are listed from  *)
(* an offset, with a number of entries skipped and an emitter that stops   *)
(* the listing at some call.                                               *)
(***************************************************************************)
MaxSkipents == 2     \* skipents ranges over 0..MaxSkipents
MaxStop == 2         \* the emitter returns true at call 1..MaxStop, or never

DirOffsets(s, i) ==
    {o \in {0, 5, DIRENT_DESC_SIZE, 3 * DIRENT_DESC_SIZE, 4 * DIRENT_DESC_SIZE, 60,
            blksz(s) - 1, blksz(s), blksz(s) + 2 * DIRENT_DESC_SIZE, file_size(i) - 1} :
        0 <= o /\ o < file_size(i)}

\* FileSystem::fill_dentries(inode, offset, skipents, emitter) on the inode
\* of nid
FillDentries(nid, offset, skipents, stop) ==
    /\ ~dres.called
    /\ dres' = [called |-> TRUE, nid |-> nid, offset |-> offset, skipents |-> skipents,
                stop |-> stop,
                r |-> fill_dentries(FS, read_inode(itab, nid), offset, skipents, stop)]
    /\ UNCHANGED <<image, mapvars, dirvars, xvars, ores, sres, cres>>

NextReaddir ==
    \E nid \in {ROOT_NID, DIR_A, DIR_B} :
        \E offset \in DirOffsets(sb, read_inode(itab, nid)),
           skipents \in 0..MaxSkipents, stop \in 0..MaxStop :
            FillDentries(nid, offset, skipents, stop)

SpecReaddir == InitDir /\ [][NextReaddir]_vars

(***************************************************************************)
(* What the image holds: the records of a directory from a byte position   *)
(* on, in block-then-record order, each with the position of its record.   *)
(***************************************************************************)
RECURSIVE block_entries(_, _, _, _, _)
block_entries(s, d, k, j, offset) ==
    IF j > Len(d.blocks[k]) THEN <<>>
    ELSE LET pos == (k - 1) * blksz(s) + DIRENT_DESC_SIZE * (j - 1)
         IN (IF pos >= offset
             THEN << [nid |-> d.blocks[k][j].nid, name |-> entry_name(s, d, k, j),
                      pos |-> pos] >>
             ELSE <<>>) \o block_entries(s, d, k, j + 1, offset)

RECURSIVE entries_from(_, _, _, _)
entries_from(s, d, k, offset) ==
    IF k > Len(d.blocks) THEN <<>>
    ELSE block_entries(s, d, k, 1, offset) \o entries_from(s, d, k + 1, offset)

\* without the first skipents records, up to the call the emitter stops at
listed(es, skipents, stop) ==
    LET rest == SubSeq(es, skipents + 1, Len(es))
    IN IF stop = 0 THEN rest ELSE SubSeq(rest, 1, Min(stop, Len(rest)))

(***************************************************************************)
(* C19.  fill_dentries(inode, offset, skip, emit) with offset < file_size  *)
(* visits the directory entries in on-disk order starting from the entry   *)
(* at byte position offset, does not call emit for the first skip entries  *)
(* visited, calls emit for every later entry with that entry's absolute    *)
(* byte offset (start of its block + 12 * its record index), makes no      *)
(* further emit call after emit has returned true, and returns Ok.         *)
(***************************************************************************)
C19_FillDentries ==
    dres.called =>
        dres.r = FillResult("ok",
                     listed(entries_from(sb, tree_dir(tree, dres.nid), 1, dres.offset),
                            dres.skipents, dres.stop))

(***************************************************************************)
(* C20.  In get_xattr an entry-level ENODATA (the entry does not match)    *)
(* makes the walk continue with the next inline or shared entry, while any *)
(* other error from reading a header, comparing a name or reading a value  *)
(* (e.g. ERANGE) aborts the whole query at once and is returned unchanged. *)
(* So the query ends at the first entry whose key matches, with its value  *)
(* or with ERANGE, and with ENODATA when the walk has passed every entry.  *)
(***************************************************************************)
C20_ErrorWalk ==
    gres.called =>
        LET M == {k \in 1..Len(Entries) :
                      key_matches(Entries[k].entry, gres.index, gres.name)}
        IN IF M = {}
           THEN gres.r.st = "err" /\ gres.r.e = "ENODATA" /\ gres.r.at = 0
           ELSE LET k == CHOOSE k \in M : \A j \in M : k <= j
                IN /\ gres.r.at = Entries[k].at
                   /\ IF fits(gres.buffer, Entries[k].entry.value)
                      THEN gres.r.st = "ok"
                      ELSE gres.r.st = "err" /\ gres.r.e = "ERANGE"

(***************************************************************************)
(* raw_iters.rs: skip, observed.  From any state that skip calls have led  *)
(* to, one skip(n) with n within the remaining bytes is recorded with its  *)
(* outcome and with the one-byte read that follows it.                     *)
(***************************************************************************)
MaxSkipTo == 5       \* the observed skip is skip(0) .. skip(MaxSkipTo)

\* iter.read(&mut [0u8; 1]) after a skip that returned Ok
read_after(fs, r) ==
    IF r.st = "ok" /\ remaining(r.p) >= 1 /\ r.p.len >= 0
    THEN read(fs, r.p, 1)
    ELSE [st |-> "none", p |-> r.p, buf |-> <<>>]

SkipTo_arm(n, r) ==
    cres' = [called |-> TRUE, p |-> cres.p, n |-> n, r |-> r, nxt |-> read_after(XFS, r)]

\* iter.skip(n), n <= the bytes remaining
SkipTo(n) ==
    /\ ~cres.called
    /\ cres.p.len >= 0
    /\ n <= remaining(cres.p)
    /\ SkipTo_arm(n, skip(XFS, cres.p, n))
    /\ UNCHANGED <<image, mapvars, dirvars, xvars, ores, sres, dres>>

NextSkip ==
    \/ \E n \in 1..MaxSkip : Skip(n)
    \/ \E n \in 0..MaxSkipTo : SkipTo(n)

SpecSkip == InitIter /\ [][NextSkip]_vars

(***************************************************************************)
(* C21.  skip(n), for any n not exceeding the bytes remaining in the       *)
(* region, returns Ok and moves the stream position forward by exactly n   *)
(* bytes, also when n is larger than the unread part of the current        *)
(* buffer: the next read starts at the byte n positions after the position *)
(* before the skip.                                                        *)
(***************************************************************************)
C21_SkipExact ==
    cres.called =>
        /\ cres.r.st = "ok"
        /\ position(cres.r.p) = position(cres.p) + cres.n
        /\ cres.n < remaining(cres.p) =>
               /\ cres.nxt.st = "ok"
               /\ cres.nxt.buf = << byte_at(disk, position(cres.p) + cres.n) >>

(***************************************************************************)
(* raw_iters.rs: try_cmp, observed.  From any state that skip calls have   *)
(* led to, one try_cmp is recorded; the reference is as long as the bytes  *)
(* remaining at most, it equals the bytes under the cursor or differs from *)
(* them in its j-th byte.                                                  *)
(***************************************************************************)
TryCmp_arm(ref, r) ==
    cres' = [called |-> TRUE, p |-> cres.p, ref |-> ref, r |-> r]

\* iter.try_cmp(ref)
TryCmp(r, j) ==
    /\ ~cres.called
    /\ cres.p.len >= 0
    /\ r <= remaining(cres.p)
    /\ TryCmp_arm(reference(cres.p, 0, r, j), try_cmp(XFS, cres.p, reference(cres.p, 0, r, j)))
    /\ UNCHANGED <<image, mapvars, dirvars, xvars, ores, sres, dres>>

NextCmp ==
    \/ \E n \in 1..MaxSkip : Skip(n)
    \/ \E r \in 0..MaxRef : \E j \in 0..r : TryCmp(r, j)

SpecCmp == InitIter /\ [][NextCmp]_vars

\* the next n bytes of the stream, as the device holds them
stream(p, n) == [i \in 1..n |-> byte_at(disk, position(p) + i - 1)]

(***************************************************************************)
(* C22.  try_cmp(reference) returns Ok(()) if and only if reference equals *)
(* the next reference.len() bytes of the stream, across buffer joins, and  *)
(* then the cursor has advanced by reference.len(); on inequality it       *)
(* returns NotEqual(c), c being exactly the number of stream bytes the     *)
(* cursor has advanced during the call, with 0 < c <= reference.len().     *)
(***************************************************************************)
C22_TryCmp ==
    cres.called =>
        /\ (cres.r.st = "ok") <=> (cres.ref = stream(cres.p, Len(cres.ref)))
        /\ cres.r.st = "ok" =>
               position(cres.r.p) = position(cres.p) + Len(cres.ref)
        /\ cres.ref # stream(cres.p, Len(cres.ref)) =>
               /\ cres.r.st = "noteq"
               /\ cres.r.n = position(cres.r.p) - position(cres.p)
               /\ 0 < cres.r.n /\ cres.r.n <= Len(cres.ref)

\* a reference that starts in one buffer and differs from the stream in a
\* byte of the next buffer: NotEqual carries the bytes compared in both
C22_Witness ==
    /\ cres.called
    /\ cres.p.at < EROFS_TEMP_BLOCK_SZ
    /\ cres.p.dlen - cres.p.cur >= 1
    /\ cres.p.dlen - cres.p.cur < Len(cres.ref)
    /\ cres.r.st = "noteq"
    /\ cres.r.p.at = EROFS_TEMP_BLOCK_SZ
    /\ cres.r.n > cres.p.dlen - cres.p.cur
    /\ cres.r.p.cur = cres.r.n - (cres.p.dlen - cres.p.cur)

(***************************************************************************)
(* map.rs: MapIter on its own, created at an offset of the file (or at its *)
(* end) and driven by next() until it returns None.  iter keeps the offset *)
(* it was created with, bufs the Maps yielded.                             *)
(***************************************************************************)
StartOffsets == ProbeOffsets \cup {file_size(inode)}

\* MapIter::new(sbi, inode, o)
MapIterNew(o) ==
    /\ iter.status = "idle"
    /\ iter' = [status |-> "running", offset |-> o, swallowed |-> "none", start |-> o]
    /\ bufs' = <<>>
    /\ UNCHANGED <<image, mres, dirvars, xvars, obsvars>>

MapIterYield(r) ==
    /\ iter' = [iter EXCEPT !.status = IF r.none THEN "done"
                                       ELSE IF r.m.ok THEN "running" ELSE "panic",
                            !.offset = r.offset,
                            !.swallowed = IF r.none THEN r.m.err ELSE "none"]
    /\ bufs' = IF ~r.none /\ r.m.ok THEN Append(bufs, r.m) ELSE bufs

\* one call of next() on the MapIter
MapIterNext ==
    /\ iter.status = "running"
    /\ MapIterYield(MapIter_next(build, sb, devinfo, inode, slots, iter.offset))
    /\ UNCHANGED <<image, mres, dirvars, xvars, obsvars>>

NextMapIter ==
    \/ \E o \in StartOffsets : MapIterNew(o)
    \/ MapIterNext

SpecMapIter == InitMap /\ [][NextMapIter]_vars

\* the logical length yielded by the first n Maps
RECURSIVE SumLogical(_, _)
SumLogical(seq, n) == IF n = 0 THEN 0 ELSE SumLogical(seq, n - 1) + seq[n].logical.len

(***************************************************************************)
(* C23.  A MapIter started at offset o, as long as every map call          *)
(* succeeds, yields a finite sequence of Maps whose logical segments are   *)
(* contiguous (the first starts at o, each next one where the previous     *)
(* ended), each with physical.len = logical.len >= 1 and physical.len <=   *)
(* blksz - (physical.start mod blksz); next() returns None exactly when    *)
(* the running offset has reached file_size.                               *)
(***************************************************************************)
C23_MapIterSequence ==
    (iter.status \in {"running", "done"} /\ iter.swallowed = "none") =>
        /\ \A k \in DOMAIN bufs :
              /\ bufs[k].logical.start = iter.start + SumLogical(bufs, k - 1)
              /\ bufs[k].physical.len = bufs[k].logical.len
              /\ bufs[k].logical.len >= 1
              /\ bufs[k].physical.len <= BlockRemainder(bufs[k].physical.start)
        /\ iter.offset = iter.start + SumLogical(bufs, Len(bufs))
        /\ Len(bufs) <= file_size(inode) - iter.start
        /\ iter.status = "done" => iter.offset >= file_size(inode)
        /\ (iter.status = "running" /\ iter.offset >= file_size(inode)) =>
              MapIter_next(build, sb, devinfo, inode, slots, iter.offset).none
        /\ (iter.status = "running" /\ iter.offset < file_size(inode)
                /\ map(build, sb, devinfo, inode, slots, iter.offset).ok) =>
              ~MapIter_next(build, sb, devinfo, inode, slots, iter.offset).none

\* an iterator created inside a block of a file of several blocks has
\* yielded a first Map that ends at the block boundary, then further Maps,
\* and has returned None at the end of the file
C23_Witness ==
    /\ iter.status = "done" /\ iter.swallowed = "none"
    /\ iter.start % blksz(sb) # 0
    /\ Len(bufs) >= 2
    /\ bufs[1].logical.len = blksz(sb) - (iter.start % blksz(sb))
    /\ iter.offset = file_size(inode)

(***************************************************************************)
(* ref_iter.rs: ContinuousRefIter over a memory backend.  as_buf hands out *)
(* the bytes of the mapping from offset on, len of them or as many as the  *)
(* mapping still holds.  The record is the one of ContinuousTempBufferIter *)
(* (at/dlen are the buffer last yielded).                                  *)
(***************************************************************************)
as_buf(fs, offset, len) ==
    [at |-> offset, dlen |-> OffMin(len, fs.size - offset)]

ContinuousRefIter_arm(p, len, buf) ==
    [none |-> FALSE,
     p |-> [p EXCEPT !.offset = p.offset + len, !.len = p.len - len,
                     !.at = buf.at, !.dlen = buf.dlen]]

\* Iterator::next: None at len == 0, else the rest of the block or of the range
ContinuousRefIter_next(fs, p) ==
    IF p.len = 0
    THEN [none |-> TRUE, p |-> p]
    ELSE ContinuousRefIter_arm(p, OffMin(blk_access(fs.sb, p.offset).len, p.len),
             as_buf(fs, p.offset, OffMin(blk_access(fs.sb, p.offset).len, p.len)))

(***************************************************************************)
(* continuous_iter(offset, len) of a file backend ("temp") and of a memory *)
(* backend ("ref") over regions inside the device, driven by next() and by *)
(* advance_off(n) with n within the remaining length.  cres keeps the      *)
(* iterator, the region it was created over, the buffers yielded and, as   *)
(* observations, the bytes yielded or skipped so far and the number of     *)
(* advance_off calls.                                                      *)
(***************************************************************************)
MaxAdvance == 2      \* at most MaxAdvance calls of advance_off on one iterator
AdvanceSteps == {1, 511, 4096}

ContBlocks == 17     \* blocks of 512 bytes: the device ends inside a TempBlock
ContRegions ==
    {[offset |-> 4090, len |-> 12], [offset |-> 500, len |-> 30],
     [offset |-> 8692, len |-> 12], [offset |-> 4095, len |-> 1030],
     [offset |-> 4000, len |-> 4300], [offset |-> 4096, len |-> 0],
     [offset |-> 8191, len |-> 1]}

InitCont ==
    /\ build \in Builds
    /\ sb \in {[blkszbits |-> 9, meta_blkaddr |-> 0, xattr_blkaddr |-> 1,
                blocks |-> ContBlocks],
               [blkszbits |-> 12, meta_blkaddr |-> 0, xattr_blkaddr |-> 1,
                blocks |-> 3]}
    /\ devinfo = [mask |-> 0]
    /\ inode = NoInode
    /\ slots = <<>> /\ itab = <<>> /\ tree = <<>> /\ xattrs = <<>>
    /\ disk = << [at |-> IterBase, bytes |-> IterBytes] >>
    /\ mres = NoMap /\ iter = IdleIter /\ bufs = <<>>
    /\ fres = NoCall /\ lres = NoCall
    /\ gres = NoCall /\ xlres = NoCall
    /\ ores = NoCall /\ sres = NoCall /\ dres = NoCall
    /\ \E kind \in {"temp", "ref"}, r \in ContRegions :
         cres = [called |-> TRUE, kind |-> kind, start |-> r,
                 p |-> ContinuousTempBufferIter_new(r.offset, r.len),
                 out |-> <<>>, passed |-> 0, advances |-> 0, ended |-> FALSE]

continuous_next(kind, fs, p) ==
    IF kind = "temp" THEN ContinuousTempBufferIter_next(fs, p)
    ELSE ContinuousRefIter_next(fs, p)

ContNext_arm(nx) ==
    cres' = [cres EXCEPT
                !.p = nx.p,
                !.ended = nx.none,
                !.out = IF nx.none THEN @
                        ELSE Append(@, [at |-> nx.p.at, dlen |-> nx.p.dlen,
                                        before |-> cres.passed]),
                !.passed = IF nx.none THEN @ ELSE @ + nx.p.dlen]

\* iter.next()
ContNext ==
    /\ ~cres.ended
    /\ ContNext_arm(continuous_next(cres.kind, XFS, cres.p))
    /\ UNCHANGED <<image, mapvars, dirvars, xvars, ores, sres, dres>>

\* iter.advance_off(n), n within the remaining length
ContAdvance(n) ==
    /\ ~cres.ended
    /\ n <= cres.p.len
    /\ cres.advances < MaxAdvance
    /\ cres' = [cres EXCEPT !.p = advance_off(cres.p, n), !.passed = @ + n,
                            !.advances = @ + 1]
    /\ UNCHANGED <<image, mapvars, dirvars, xvars, ores, sres, dres>>

NextCont ==
    \/ ContNext
    \/ \E n \in AdvanceSteps : ContAdvance(n)

SpecCont == InitCont /\ [][NextCont]_vars

\* the buffer holds device bytes: it lies in the part of the TempBlock that
\* fill reached, or in the mapping
from_device(fs, kind, b) ==
    IF kind = "temp"
    THEN (b.at - TempBlockAccessor(b.at).base) + b.dlen
             <= file_fill(fs, TempBlockAccessor(b.at).base)
    ELSE b.at + b.dlen <= fs.size

\* the buffers and eof() of a continuous iterator whose buffers end at the
\* boundaries of blocks of unit bytes
continuous_contract(unit) ==
    /\ \A k \in DOMAIN cres.out :
          /\ cres.out[k].dlen >= 1
          /\ (cres.out[k].at % unit) + cres.out[k].dlen <= unit
          /\ cres.out[k].at = cres.start.offset + cres.out[k].before
          /\ from_device(XFS, cres.kind, cres.out[k])
    /\ Len(cres.out) <= cres.start.len
    /\ cres.passed <= cres.start.len
    /\ ContinuousTempBufferIter_eof(cres.p) <=> (cres.passed = cres.start.len)
    /\ cres.ended => ContinuousTempBufferIter_eof(cres.p)

(***************************************************************************)
(* C24 (as stated): continuous_iter(offset, len) over a region inside the  *)
(* device yields finitely many non-empty buffers, none of which crosses a  *)
(* boundary of the filesystem's blocks, whose concatenation is exactly the *)
(* device bytes [offset, offset + len); eof() is true exactly when all len *)
(* bytes have been yielded or skipped.                                     *)
(***************************************************************************)
C24_ContinuousIter == continuous_contract(blksz(sb))

(***************************************************************************)
(* C24 (amended): the same, with the boundaries being those of the unit    *)
(* the iterator fetches by: the TempBlock of EROFS_TEMP_BLOCK_SZ bytes for *)
(* a file backend, whatever blksz is, and the filesystem block for a       *)
(* memory backend.                                                         *)
(***************************************************************************)
C24_ContinuousIterAmended ==
    continuous_contract(IF cres.kind = "temp" THEN EROFS_TEMP_BLOCK_SZ ELSE blksz(sb))

\* a file-backed iterator on a filesystem of 512-byte blocks has come to its
\* end without a skip, after several buffers that join at the ends of the
\* TempBlocks and one of which crosses boundaries of filesystem blocks
C24_Witness ==
    /\ cres.kind = "temp" /\ blksz(sb) < EROFS_TEMP_BLOCK_SZ
    /\ cres.ended /\ cres.advances = 0
    /\ Len(cres.out) >= 2
    /\ \E k \in DOMAIN cres.out :
          (cres.out[k].at % blksz(sb)) + cres.out[k].dlen > blksz(sb)
    /\ (cres.out[1].at + cres.out[1].dlen) % EROFS_TEMP_BLOCK_SZ = 0
    /\ cres.out[Len(cres.out)].at + cres.out[Len(cres.out)].dlen
           = cres.start.offset + cres.start.len

(***************************************************************************)
(* Open, then map: images whose device table holds 0..MaxSlots extra       *)
(* devices are opened, and inodes of every layout are mapped with the      *)
(* DeviceInfo that try_new returned.                                       *)
(***************************************************************************)
MaxSlots == 5        \* extra_devices ranges over 0..MaxSlots

RECURSIVE device_table_bytes(_)
device_table_bytes(n) ==
    IF n = 0 THEN <<>> ELSE device_table_bytes(n - 1) \o device_slot_bytes(32 + n)

InitMask ==
    /\ build \in Builds
    /\ sb \in [magic : {SB_MAGIC}, blkszbits : BlkSzBits, root_nid : {36},
               blocks : {OpenBlocks}, meta_blkaddr : {1}, xattr_blkaddr : {1},
               extra_devices : 0..MaxSlots, devt_slotoff : {DEVT_SLOTOFF},
               xattr_prefix_count : {0}, xattr_prefix_start : {PREFIX_START}]
    /\ devinfo = NoDeviceInfo
    /\ \E l \in {"FlatPlain", "FlatInline", "Chunk"} :
         inode \in [nid : {2}, version : {"Compact", "Extended"}, layout : {l},
                    i_size : FileSizes(sb.blkszbits), xattr_icount : {0, 1},
                    i_u : RawUnions(l)]
    /\ inode.layout = "FlatInline" => inline_fits(sb, inode)
    /\ slots \in (IF inode.layout = "Chunk" THEN DeviceTables ELSE {<<>>})
    /\ disk = << [at |-> EROFS_SUPER_OFFSET, bytes |-> superblock_bytes(sb)],
                 [at |-> DEVT_SLOTOFF * DEVICE_SLOT_SIZE,
                  bytes |-> device_table_bytes(sb.extra_devices)] >>
    /\ itab = <<>> /\ tree = <<>> /\ xattrs = <<>>
    /\ mres = NoMap /\ iter = IdleIter /\ bufs = <<>>
    /\ fres = NoCall /\ lres = NoCall
    /\ gres = NoCall /\ xlres = NoCall
    /\ ores = NoCall /\ sres = NoCall /\ cres = NoCall /\ dres = NoCall

OpenDevices_arm(r) ==
    /\ r.st = "ok"
    /\ ores' = [called |-> TRUE, r |-> r]
    /\ devinfo' = r.device_info

\* open(backend): the handle keeps the DeviceInfo of get_device_infos
OpenDevices ==
    /\ ~ores.called
    /\ OpenDevices_arm(try_new(build, disk, blkpos(sb, sb.blocks)))
    /\ UNCHANGED <<build, sb, inode, slots, disk, itab, tree, xattrs,
                   mapvars, dirvars, xvars, sres, cres, dres>>

\* map(inode, o) on the opened filesystem
MapOpened(o) ==
    /\ ores.called
    /\ Map(o)

NextMask ==
    \/ OpenDevices
    \/ \E o \in ProbeOffsets : MapOpened(o)

SpecMask == InitMask /\ [][NextMask]_vars

\* the least k with 2^k >= n
RECURSIVE ceil_log2_from(_, _)
ceil_log2_from(n, k) == IF 2 ^ k >= n THEN k ELSE ceil_log2_from(n, k + 1)
ceil_log2(n) == ceil_log2_from(n, 0)

\* a & b on naturals, bit by bit
RECURSIVE BitAnd(_, _)
BitAnd(a, b) ==
    IF a = 0 \/ b = 0 THEN 0
    ELSE (a % 2) * (b % 2) + 2 * BitAnd(a \div 2, b \div 2)

\* the table sizes for which the mask is computed apart from an image, up to
\* the largest extra_devices an i16 holds
MaskCounts == (1..40) \cup {255, 256, 16383, 16384, 32767}

(***************************************************************************)
(* C25.  The device table built at open has mask = 0 when there are no     *)
(* extra devices and mask = (1 << ceil_log2(count + 1)) - 1 for count > 0  *)
(* extra devices, a value that fits 16 bits; every Map produced from a     *)
(* chunk index carries device_id = chunk_index.device_id & mask, and flat  *)
(* and legacy-chunk maps carry device_id 0.                                *)
(***************************************************************************)
C25_DeviceMask ==
    /\ ores.called =>
          /\ Len(devinfo.specs) = sb.extra_devices
          /\ devinfo.mask = IF sb.extra_devices = 0 THEN 0
                            ELSE 2 ^ ceil_log2(sb.extra_devices + 1) - 1
    /\ (ores.called /\ ~Mapped) =>
          \A n \in MaskCounts :
              /\ DeviceInfo([k \in 1..n |-> 0]).mask = 2 ^ ceil_log2(n + 1) - 1
              /\ DeviceInfo([k \in 1..n |-> 0]).mask <= U16_MAX
    /\ (Mapped /\ mres.r.ok) =>
          IF inode.layout = "Chunk" /\ is_chunkindex(spec(inode).v)
          THEN mres.r.device_id =
                   BitAnd(read_chunk_slot(sb, inode, slots,
                              chunk_slot_pos(sb, inode, 8,
                                  mres.off \div chunksz(sb, inode)), 8).device_id,
                          devinfo.mask)
          ELSE mres.r.device_id = 0

\* a filesystem opened with three extra devices (mask 3) has mapped a chunk
\* whose index names device 7: the Map carries device 3
C25_Witness ==
    /\ ores.called /\ sb.extra_devices = 3 /\ devinfo.mask = 3
    /\ Mapped /\ mres.r.ok
    /\ inode.layout = "Chunk" /\ is_chunkindex(spec(inode).v)
    /\ slots[(mres.off \div chunksz(sb, inode)) + 1].device_id = 7
    /\ mres.r.device_id = 3

(***************************************************************************)
(* dir.rs: DirCollection as an iterator over one directory block buffer.   *)
(* dres keeps the collection, the skip_dir made on it while it was fresh,  *)
(* and the entries that next() has yielded.                                *)
(***************************************************************************)
MaxSkipDir == 6      \* skip_dir(0) .. skip_dir(MaxSkipDir)

skip_dir(c, offset) == [c EXCEPT !.offset = @ + offset]

\* self.dirent(self.offset).map(|x| { self.offset += 1; x })
DirCollection_next_arm(c, d) ==
    [item |-> d, c |-> IF d.kind = "some" THEN [c EXCEPT !.offset = @ + 1] ELSE c]

DirCollection_next(c) == DirCollection_next_arm(c, dirent(c, c.offset))

\* directory blocks: full ones, padded ones, one record, no record
DirBuffers ==
    {block_bytes(<<Ent(36, Str_dot, 2), Ent(36, Str_dotdot, 2), Ent(40, Str_a, 1)>>, 0),
     block_bytes(<<Ent(36, Str_dot, 2), Ent(36, Str_dotdot, 2), Ent(40, Str_ab, 1),
                   Ent(41, Str_b, 2), Ent(42, Str_f, 1)>>, 3),
     block_bytes(<<Ent(36, Str_ab, 2), Ent(37, Str_a, 1), Ent(38, Str_x, 1),
                   Ent(39, Str_dotdot, 2)>>, 0),
     block_bytes(<<Ent(44, Str_x, 1)>>, 0),
     block_bytes(<<Ent(44, Str_ab, 1)>>, 7),
     Zeros(16)}

InitColl ==
    /\ build \in Builds
    /\ sb = [blkszbits |-> 9, meta_blkaddr |-> 0]
    /\ devinfo = [mask |-> 0]
    /\ inode = NoInode
    /\ slots = <<>> /\ itab = <<>> /\ tree = <<>> /\ xattrs = <<>>
    /\ disk = <<>>
    /\ mres = NoMap /\ iter = IdleIter /\ bufs = <<>>
    /\ fres = NoCall /\ lres = NoCall
    /\ gres = NoCall /\ xlres = NoCall
    /\ ores = NoCall /\ sres = NoCall /\ cres = NoCall
    /\ \E buffer \in DirBuffers :
         dres = [called |-> TRUE, fresh |-> TRUE, skipped |-> 0, st |-> "running",
                 c |-> DirCollection_new(buffer), out |-> <<>>]

\* collection.skip_dir(k) on a fresh collection
SkipDir(k) ==
    /\ dres.fresh
    /\ dres' = [dres EXCEPT !.fresh = FALSE, !.skipped = k, !.c = skip_dir(@, k)]
    /\ UNCHANGED <<image, mapvars, dirvars, xvars, ores, sres, cres>>

CollNext_arm(nx) ==
    dres' = [dres EXCEPT
                !.fresh = FALSE,
                !.c = nx.c,
                !.st = CASE nx.item.kind = "some" -> "running"
                         [] nx.item.kind = "none" -> "done"
                         [] OTHER -> "panic",
                !.out = IF nx.item.kind = "some"
                        THEN Append(@, [nid |-> nx.item.nid, name |-> nx.item.name])
                        ELSE @]

\* collection.next()
CollNext ==
    /\ dres.st = "running"
    /\ CollNext_arm(DirCollection_next(dres.c))
    /\ UNCHANGED <<image, mapvars, dirvars, xvars, ores, sres, cres>>

NextColl ==
    \/ \E k \in 0..MaxSkipDir : SkipDir(k)
    \/ CollNext

SpecColl == InitColl /\ [][NextColl]_vars

\* the records of a directory block, read from its bytes
record_count(buffer) == le_value(SubSeq(buffer, 9, 10)) \div 12
record_nameoff(buffer, i) == le_value(SubSeq(buffer, 12 * i + 9, 12 * i + 10))
record_at(buffer, i) ==
    [nid |-> le_value(SubSeq(buffer, 12 * i + 1, 12 * i + 8)),
     name |-> SubSeq(buffer, record_nameoff(buffer, i) + 1,
                     IF i = record_count(buffer) - 1 THEN Len(buffer)
                     ELSE record_nameoff(buffer, i + 1))]

(***************************************************************************)
(* C26.  For a directory block buffer, DirCollection yields exactly        *)
(* first_record.nameoff / 12 entries in record order; entry i (not last)   *)
(* has the name bytes [desc[i].nameoff, desc[i+1].nameoff) of the buffer,  *)
(* the last entry's name runs from its nameoff to the end of the buffer;   *)
(* after skip_dir(k) on a fresh collection the first entry yielded is      *)
(* record k, and no entry is yielded when k >= count.                      *)
(***************************************************************************)
C26_DirCollection ==
    LET buffer == dres.c.data
        count == record_count(buffer)
    IN /\ dres.st # "panic"
       /\ \A j \in DOMAIN dres.out :
             /\ dres.skipped + j - 1 < count
             /\ dres.out[j] = record_at(buffer, dres.skipped + j - 1)
       /\ dres.st = "done" =>
             Len(dres.out) = IF dres.skipped >= count THEN 0 ELSE count - dres.skipped

\* a padded block of five records walked to its end after skip_dir(2): three
\* entries, the last with its name and the padding behind it
C26_Witness ==
    /\ dres.st = "done" /\ dres.skipped = 2
    /\ record_count(dres.c.data) = 5
    /\ Len(dres.out) = 3
    /\ dres.out[1] = [nid |-> 40, name |-> Str_ab]
    /\ dres.out[3] = [nid |-> 42, name |-> Str_f \o Zeros(3)]


\* the payloads of the first k infix records of the images that are opened
prefix_records(k) == SubSeq(<< <<1, 120>> >>, 1, k)

(***************************************************************************)
(* C27.  open on an image whose superblock has xattr_prefix_count = k      *)
(* builds an infix table of exactly k entries, entry j being the payload   *)
(* of the j-th u16-length-prefixed, 4-byte-aligned record of the xattr     *)
(* prefix region (first byte the real-prefix selector, the rest the infix  *)
(* bytes), without reading outside the fetched buffers; for k = 0 the      *)
(* table is empty.                                                         *)
(***************************************************************************)
C27_InfixTable ==
    (ores.called /\ sb.magic = SB_MAGIC) =>
        /\ ores.r.st = "ok"
        /\ ores.r.infixes = prefix_records(sb.xattr_prefix_count)


(***************************************************************************)
(* C28.  Every Map returned by map(i, o) with 0 <= o < file_size(i), for   *)
(* flat-plain, flat-inline, legacy-chunk and chunk-index layouts alike,    *)
(* stays inside the file: m.logical.start + m.logical.len <= file_size(i). *)
(***************************************************************************)
C28_MapInsideFile ==
    (Mapped /\ mres.r.ok) =>
        mres.r.logical.start + mres.r.logical.len <= file_size(inode)


(***************************************************************************)
(* Listing from the end of a directory.  The directories are those of the  *)
(* tree; a flat-plain directory may also fill its last block, its size     *)
(* being a whole number of blocks and the block ending in zero bytes.      *)
(***************************************************************************)
full_block(s, i, full) ==
    IF i.nid \in full /\ i.layout = "FlatPlain"
    THEN [i EXCEPT !.i_size = RoundUp(@, blksz(s))] ELSE i

InitDirEnd ==
    /\ build \in Builds
    /\ sb = [blkszbits |-> 9, meta_blkaddr |-> 1]
    /\ devinfo = [mask |-> 0]
    /\ inode = NoInode /\ slots = <<>>
    /\ \E v \in {"Compact", "Extended"}, ic \in 0..MaxIcount,
          l \in {"FlatPlain", "FlatInline"} : tree = TreeOf(v, ic, l)
    /\ disk = tree_extents(sb, tree, Len(tree))
    /\ \E full \in SUBSET {ROOT_NID, DIR_B} :
          itab = [n \in DOMAIN tree_itab(sb, tree) |->
                      full_block(sb, tree_itab(sb, tree)[n], full)]
    /\ xattrs = <<>>
    /\ mres = NoMap /\ iter = IdleIter /\ bufs = <<>>
    /\ fres = NoCall /\ lres = NoCall
    /\ gres = NoCall /\ xlres = NoCall
    /\ ores = NoCall /\ sres = NoCall /\ cres = NoCall /\ dres = NoCall

\* the end of the directory and positions behind it
EndOffsets(s, i) ==
    {file_size(i), file_size(i) + 1, RoundUp(file_size(i) + 1, blksz(s)),
     file_size(i) + blksz(s)}

NextReaddirEnd ==
    \E nid \in {ROOT_NID, DIR_A, DIR_B} :
        \E offset \in EndOffsets(sb, read_inode(itab, nid)),
           skipents \in 0..MaxSkipents, stop \in 0..MaxStop :
            FillDentries(nid, offset, skipents, stop)

SpecReaddirEnd == InitDirEnd /\ [][NextReaddirEnd]_vars

(***************************************************************************)
(* C29.  fill_dentries never panics on a position at or past the end of    *)
(* the directory: with offset > file_size it returns EUCLEAN without       *)
(* calling emit, and with offset == file_size (the position a reader       *)
(* reaches after the last entry) it returns Ok(()) without calling emit.   *)
(***************************************************************************)
C29_FillPastEnd ==
    dres.called =>
        LET size == file_size(read_inode(itab, dres.nid))
        IN /\ dres.offset > size => dres.r = FillResult("EUCLEAN", <<>>)
           /\ dres.offset = size => dres.r = FillResult("ok", <<>>)


(***************************************************************************)
(* The region of a continuous buffer iterator under a                      *)
(* SkippableContinuousIter: cres keeps the (offset0, len0) the iterator    *)
(* was created over, the iterator and the outcome of the last call.  skip  *)
(* and read are called with no more than the bytes that remain.            *)
(***************************************************************************)
MaxRegionRead == 3   \* read(buf) with buffers of 1 .. MaxRegionRead bytes

InitRegion ==
    /\ build \in Builds
    /\ sb = [blkszbits |-> 9, meta_blkaddr |-> 0, xattr_blkaddr |-> 1, blocks |-> 16]
    /\ devinfo = [mask |-> 0]
    /\ inode = NoInode
    /\ slots = <<>> /\ itab = <<>> /\ tree = <<>> /\ xattrs = <<>>
    /\ disk = << [at |-> IterBase, bytes |-> IterBytes] >>
    /\ mres = NoMap /\ iter = IdleIter /\ bufs = <<>>
    /\ fres = NoCall /\ lres = NoCall
    /\ gres = NoCall /\ xlres = NoCall
    /\ ores = NoCall /\ sres = NoCall /\ dres = NoCall
    /\ \E s \in IterStarts :
         cres = [called |-> TRUE, start |-> s, st |-> "ok", skips |-> 0,
                 p |-> SkippableContinuousIter_try_new(XFS,
                           ContinuousTempBufferIter_new(s.offset, s.len)).p]

Region_arm(r, skipped) ==
    cres' = [cres EXCEPT !.p = r.p, !.st = r.st, !.skips = @ + skipped]

\* iter.skip(n)
RegionSkip(n) ==
    /\ cres.st = "ok" /\ cres.p.len >= 0
    /\ n <= remaining(cres.p)
    /\ Region_arm(skip(XFS, cres.p, n), 1)
    /\ UNCHANGED <<image, mapvars, dirvars, xvars, ores, sres, dres>>

\* iter.read(buf), which calls next() where the buffer runs out
RegionRead(blen) ==
    /\ cres.st = "ok" /\ cres.p.len >= 0
    /\ blen <= remaining(cres.p)
    /\ Region_arm(read(XFS, cres.p, blen), 0)
    /\ UNCHANGED <<image, mapvars, dirvars, xvars, ores, sres, dres>>

NextRegion ==
    \/ \E n \in 1..MaxSkipTo : RegionSkip(n)
    \/ \E blen \in 1..MaxRegionRead : RegionRead(blen)

SpecRegion == InitRegion /\ [][NextRegion]_vars

(***************************************************************************)
(* C30.  For a continuous buffer iterator created over (offset0, len0),    *)
(* after any sequence of next() calls and of advance_off calls issued by   *)
(* SkippableContinuousIter.skip, the fields satisfy                        *)
(* offset + len == offset0 + len0 and 0 <= len <= len0: the remaining      *)
(* length never wraps below zero and the region end never moves.           *)
(***************************************************************************)
C30_RegionKept ==
    /\ cres.p.offset + cres.p.len = cres.start.offset + cres.start.len
    /\ 0 <= cres.p.len /\ cres.p.len <= cres.start.len

=============================================================================
